---------------------------- MODULE Spec2Model ----------------------------
(***************************************************************************)
(* A model of the statistical core of forum-helper's data_analysis         *)
(* package (statistical_analysis.py with the constants of config.py).      *)
(*                                                                         *)
(* The observation table is a sequence of rows; a row is a record with     *)
(* the columns group, subgroup, outcome and baseline.  A categorical cell  *)
(* is a string, NA when missing.  A numeric cell is <<v>> when present     *)
(* and <<>> when missing, so that a missing value is never a number.       *)
(*                                                                         *)
(* The routines of the statistics library (shapiro, levene, ttest_ind,     *)
(* mannwhitneyu, ols/anova_lm, linregress) are not part of the repository: *)
(* each is modelled by the set of answers it may give, and every function  *)
(* of the repository by the set of outcomes it may have.  An outcome is a  *)
(* record [exc, ret, log]: the exception that escaped ("none" when the     *)
(* call returned), the value returned, and the calls made on the way, in   *)
(* order.  p-values are in hundredths (an alpha of 5 is 0.05).             *)
(***************************************************************************)
EXTENDS Integers, Sequences, FiniteSets, TLC

VARIABLES data,      \* the observation table the operations are called on
                     \* (the frames that exist, the table first, where frames
                     \* are objects; the cell for safe_json_parse)
          env,       \* the process environment: which optional packages import
                     \* and the configured significance level; where calls
                     \* follow one another, the table as built and their number
          call,      \* the last call made: its function and scalar arguments
          result,    \* what that call returned or raised
          log        \* the library and battery calls that call made, in order

vars == <<data, env, call, result, log>>

---------------------------------------------------------------------------
(* Bounds of the model. *)

\* the longest run of equal rows in a table given to the Test Battery
MaxRun == 3

\* the longest run of equal rows in a table given to the Subgroup Runner
MaxLevelRun == 2

\* the most complete rows of one arm in a table of the Comparator
MaxArm == 6

\* the longest sample handed to the Effect Size Calculator
MaxSample == 3

\* the largest effect size handed to the calculators, in twentieths
MaxTwentieths == 18

\* the largest sample size per group handed to the Power Calculator
MaxPerGroup == 4

---------------------------------------------------------------------------
(* Constants of the program. *)

\* ALPHA = 0.05 as config.py ships it, in hundredths
ShippedAlpha == 5

\* config.ALPHA as the functions read it: the value the process is
\* configured with
ALPHA == env.ALPHA

\* config.MIN_SUBGROUP_SIZE
MIN_SUBGROUP_SIZE == 10

---------------------------------------------------------------------------
(* Values. *)

\* the missing marker of a categorical column (NaN in an object column)
NA == "<NA>"

\* a missing numeric cell, and NaN as a float
NaN == <<>>

Num(x) == <<x>>

\* Python's None, True and False as they appear in result records
None == "None"

PyBool(b) == IF b THEN "True" ELSE "False"

\* truthiness as `and` / `if` see it: None and False are falsy
Truthy(x) == x = "True"

\* float comparisons: every comparison with NaN is False
Gt(p, a) == p # NaN /\ p[1] > a

Lt(p, a) == p # NaN /\ p[1] < a

---------------------------------------------------------------------------
(* pandas. *)

\* data[col]: the column as a sequence
Column(data_, col) == [i \in 1..Len(data_) |-> data_[i][col]]

RECURSIVE Contains(_, _)
Contains(s, x) == IF s = <<>> THEN FALSE
                  ELSE IF Head(s) = x THEN TRUE ELSE Contains(Tail(s), x)

\* Series.unique(): the distinct values in order of first appearance; the
\* missing marker is a value like any other and appears once
RECURSIVE UniqueFrom(_, _)
UniqueFrom(s, seen) ==
    IF s = <<>> THEN seen
    ELSE IF Contains(seen, Head(s)) THEN UniqueFrom(Tail(s), seen)
         ELSE UniqueFrom(Tail(s), Append(seen, Head(s)))

unique(s) == UniqueFrom(s, <<>>)

\* pd.isna
isna(x) == x = NA

\* the boolean mask data[col] == value: a missing cell equals nothing, and
\* nothing equals the missing marker
MaskEq(cell, value) == cell # NA /\ value # NA /\ cell = value

\* data[data[col] == value]
RECURSIVE Where(_, _, _)
Where(data_, col, value) ==
    IF data_ = <<>> THEN <<>>
    ELSE IF MaskEq(Head(data_)[col], value)
         THEN <<Head(data_)>> \o Where(Tail(data_), col, value)
         ELSE Where(Tail(data_), col, value)

\* Series.dropna() of a numeric column, as the sequence of the numbers left
RECURSIVE dropna(_)
dropna(s) == IF s = <<>> THEN <<>>
             ELSE IF Head(s) = NaN THEN dropna(Tail(s))
                  ELSE <<Head(s)[1]>> \o dropna(Tail(s))

\* data[data[group_col] == group][measure_col].dropna()
GroupData(data_, group_col, group, measure_col) ==
    dropna(Column(Where(data_, group_col, group), measure_col))

RECURSIVE Sum(_)
Sum(s) == IF s = <<>> THEN 0 ELSE Head(s) + Sum(Tail(s))

RECURSIVE SumSq(_)
SumSq(s) == IF s = <<>> THEN 0 ELSE Head(s) * Head(s) + SumSq(Tail(s))

RECURSIVE SeqMin(_)
SeqMin(s) == IF Len(s) = 1 THEN Head(s)
             ELSE LET m == SeqMin(Tail(s)) IN IF Head(s) < m THEN Head(s) ELSE m

RECURSIVE SeqMax(_)
SeqMax(s) == IF Len(s) = 1 THEN Head(s)
             ELSE LET m == SeqMax(Tail(s)) IN IF Head(s) > m THEN Head(s) ELSE m

---------------------------------------------------------------------------
(* Floats that are computed, not drawn: exact signed fractions, or NaN or  *)
(* an infinity.  [kind |-> "num", sign, num, den] is sign * num / den with *)
(* num >= 0, den > 0 in lowest terms; the square of an effect size is kept *)
(* where the code takes a square root.                                     *)

RECURSIVE GCD(_, _)
GCD(a, b) == IF b = 0 THEN a ELSE GCD(b, a % b)

Abs(x) == IF x < 0 THEN -x ELSE x

Sign(x) == IF x < 0 THEN -1 ELSE IF x > 0 THEN 1 ELSE 0

FNaN == [kind |-> "nan", sign |-> 0, num |-> 0, den |-> 1]

FInf(s) == [kind |-> "inf", sign |-> s, num |-> 0, den |-> 1]

\* n / d for integers n and d # 0
Frac(n, d) ==
    LET g == GCD(Abs(n), Abs(d))
    IN [kind |-> "num", sign |-> Sign(n) * Sign(d),
        num |-> Abs(n) \div g, den |-> Abs(d) \div g]

\* Series.mean(): NaN for an empty series
Mean(s) == IF Len(s) = 0 THEN FNaN ELSE Frac(Sum(s), Len(s))

\* Series.min() and Series.max(): NaN for an empty series
Min(s) == IF Len(s) = 0 THEN FNaN ELSE Frac(SeqMin(s), 1)

Max(s) == IF Len(s) = 0 THEN FNaN ELSE Frac(SeqMax(s), 1)

\* sign * sqrt(n / d), for n >= 0 and d > 0: what is left of a quotient by a
\* square root
Root(sign, n, d) ==
    IF n = 0 \/ sign = 0 THEN Frac(0, 1)
    ELSE LET g == GCD(n, d)
         IN [kind |-> "root", sign |-> sign, num |-> n \div g, den |-> d \div g]

\* arithmetic on fractions; NaN spreads
FAdd(a, b) ==
    IF a.kind # "num" \/ b.kind # "num" THEN FNaN
    ELSE Frac(a.sign * a.num * b.den + b.sign * b.num * a.den, a.den * b.den)

FNeg(a) == IF a.kind # "num" THEN a ELSE [a EXCEPT !.sign = -a.sign]

FSub(a, b) == FAdd(a, FNeg(b))

FMul(a, b) ==
    IF a.kind # "num" \/ b.kind # "num" THEN FNaN
    ELSE Frac(a.sign * b.sign * a.num * b.num, a.den * b.den)

\* numpy division: x / 0 is an infinity, 0 / 0 is NaN, neither raises
FDiv(a, b) ==
    IF a.kind # "num" \/ b.kind # "num" THEN FNaN
    ELSE IF b.num = 0 THEN (IF a.num = 0 THEN FNaN ELSE FInf(a.sign))
    ELSE Frac(a.sign * b.sign * a.num * b.den, a.den * b.num)

\* np.sqrt of a perfect square
Sqrt(n) == CHOOSE r \in 0..n : r * r = n

---------------------------------------------------------------------------
(* The statistics library.  A p-value is one of PVals, which lie below, on *)
(* and above ALPHA, or NaN where the sample is degenerate.                 *)

PVals == {ALPHA - 1, ALPHA, ALPHA + 1}

\* a test statistic the library computed (its value is never inspected)
Stat == <<"statistic">>

LibCall(fn, arg) == [fn |-> fn, arg |-> arg]

\* a call of a test together with the p-value it answered
LibAnswer(fn, arg, p_value) == [fn |-> fn, arg |-> arg, p_value |-> p_value]

\* scipy.stats.shapiro(x), asked only for len(x) >= 3
shapiro(x) == {[statistic |-> Stat, p_value |-> Num(p)] : p \in PVals}

\* scipy.stats.levene(*groups), asked only for >= 2 non-empty groups: NaN
\* when no group has two observations (no degrees of freedom are left)
levene(groups) ==
    IF \A i \in 1..Len(groups) : Len(groups[i]) <= 1
    THEN {[statistic |-> NaN, p_value |-> NaN]}
    ELSE {[statistic |-> Stat, p_value |-> Num(p)] : p \in PVals}

\* scipy.stats.ttest_ind(a, b): NaN when a sample is empty or no degrees of
\* freedom are left
ttest_ind(a, b) ==
    IF Len(a) = 0 \/ Len(b) = 0 \/ Len(a) + Len(b) <= 2
    THEN {[statistic |-> NaN, p_value |-> NaN]}
    ELSE {[statistic |-> Stat, p_value |-> Num(p)] : p \in PVals}

\* scipy.stats.mannwhitneyu(x, y, alternative='two-sided'): NaN when a
\* sample is empty
mannwhitneyu(x, y) ==
    IF Len(x) = 0 \/ Len(y) = 0
    THEN {[statistic |-> NaN, p_value |-> NaN]}
    ELSE {[statistic |-> Stat, p_value |-> Num(p)] : p \in PVals}

---------------------------------------------------------------------------
(* calculate_descriptive_stats: one summary per value of unique().         *)

\* the values of a series in ascending order
RECURSIVE Insert(_, _)
Insert(x, sorted) ==
    IF sorted = <<>> THEN <<x>>
    ELSE IF x <= Head(sorted) THEN <<x>> \o sorted
    ELSE <<Head(sorted)>> \o Insert(x, Tail(sorted))

RECURSIVE Sorted(_)
Sorted(s) == IF s = <<>> THEN <<>> ELSE Insert(Head(s), Sorted(Tail(s)))

\* Series.std(): the sample standard deviation (n - 1 denominator), NaN for
\* fewer than two values
Std(s) ==
    IF Len(s) <= 1 THEN FNaN
    ELSE Root(1, Len(s) * SumSq(s) - Sum(s) * Sum(s), Len(s) * (Len(s) - 1))

\* Series.quantile(qn / qd) with linear interpolation between the two
\* order statistics around position (n - 1) * qn / qd; NaN for an empty series
Quantile(s, qn, qd) ==
    IF Len(s) = 0 THEN FNaN
    ELSE LET sorted == Sorted(s)
             h == (Len(s) - 1) * qn
             k == h \div qd
             r == h % qd
         IN IF r = 0 THEN Frac(sorted[k + 1], 1)
            ELSE Frac(qd * sorted[k + 1] + r * (sorted[k + 2] - sorted[k + 1]), qd)

\* Series.median()
Median(s) == Quantile(s, 1, 2)

\* a mutant of DescriptiveSample: a missing outcome counts as zero
DescriptiveSample_MissingAsZero(data_, group_col, group, measure_col) ==
    LET cells == Column(Where(data_, group_col, group), measure_col)
    IN [i \in 1..Len(cells) |-> IF cells[i] = NaN THEN 0 ELSE cells[i][1]]

\* group_data = data[data[group_col] == group][measure_col].dropna()
DescriptiveSample(data_, group_col, group, measure_col) ==
    GroupData(data_, group_col, group, measure_col)

RECURSIVE DescriptiveLoop(_, _, _, _)
DescriptiveLoop(groups, data_, group_col, measure_col) ==
    IF groups = <<>> THEN <<>>
    ELSE LET group == Head(groups)
             group_data == DescriptiveSample(data_, group_col, group, measure_col)
         IN (group :> [n |-> Len(group_data),
                       mean |-> Mean(group_data),
                       std |-> Std(group_data),
                       median |-> Median(group_data),
                       q25 |-> Quantile(group_data, 1, 4),
                       q75 |-> Quantile(group_data, 3, 4),
                       min |-> Min(group_data),
                       max |-> Max(group_data)])
            @@ DescriptiveLoop(Tail(groups), data_, group_col, measure_col)

calculate_descriptive_stats(data_, group_col, measure_col) ==
    DescriptiveLoop(unique(Column(data_, group_col)), data_, group_col, measure_col)

---------------------------------------------------------------------------
(* calculate_effect_size.  With n = len, s = sum and q = sum of squares,   *)
(* (n - 1) * var() is (n*q - s*s) / n for n >= 2 and NaN otherwise, since  *)
(* var() of fewer than two values is NaN and 0 * NaN is NaN.               *)

\* n * (n - 1) * var(), an integer >= 0, for n >= 2
SumSqDev(s) == Len(s) * SumSq(s) - Sum(s) * Sum(s)

\* n1 * n2 * (mean1 - mean2)
MeanDiffNum(group1, group2) == Sum(group1) * Len(group2) - Sum(group2) * Len(group1)

\* a mutant of cohen_d: an undefined effect size is reported as zero
cohen_d_ZeroWhenUndefined(group1, group2) ==
    LET n1 == Len(group1)
        n2 == Len(group2)
        D  == MeanDiffNum(group1, group2)
        W  == n2 * SumSqDev(group1) + n1 * SumSqDev(group2)
    IN IF n1 <= 1 \/ n2 <= 1 THEN Frac(0, 1)
       ELSE IF W = 0 THEN (IF D = 0 THEN FNaN ELSE FInf(Sign(D)))
       ELSE Root(Sign(D), D * D * (n1 + n2 - 2), n1 * n2 * W)

\* a mutant of cohen_d: the difference of the means is taken unsigned
cohen_d_Unsigned(group1, group2) ==
    LET n1 == Len(group1)
        n2 == Len(group2)
        D  == Abs(MeanDiffNum(group1, group2))
        W  == n2 * SumSqDev(group1) + n1 * SumSqDev(group2)
    IN IF n1 <= 1 \/ n2 <= 1 THEN FNaN
       ELSE IF W = 0 THEN (IF D = 0 THEN FNaN ELSE FInf(Sign(D)))
       ELSE Root(Sign(D), D * D * (n1 + n2 - 2), n1 * n2 * W)

cohen_d(group1, group2) ==
    LET n1 == Len(group1)
        n2 == Len(group2)
        D  == MeanDiffNum(group1, group2)
        W  == n2 * SumSqDev(group1) + n1 * SumSqDev(group2)
    IN IF n1 <= 1 \/ n2 <= 1 THEN FNaN
       ELSE IF W = 0 THEN (IF D = 0 THEN FNaN ELSE FInf(Sign(D)))
       ELSE Root(Sign(D), D * D * (n1 + n2 - 2), n1 * n2 * W)

glass_delta(group1, group2) ==
    LET n1 == Len(group1)
        n2 == Len(group2)
        D  == MeanDiffNum(group1, group2)
        V2 == SumSqDev(group2)
    IN IF n1 = 0 \/ n2 <= 1 THEN FNaN
       ELSE IF V2 = 0 THEN (IF D = 0 THEN FNaN ELSE FInf(Sign(D)))
       ELSE Root(Sign(D), D * D * (n2 - 1), n1 * n1 * n2 * V2)

\* a mutant of HedgesCorrection: 1 + 3 / (4 * (n1 + n2) - 9)
HedgesCorrection_Added(n1, n2) == Frac(4 * (n1 + n2) - 6, 4 * (n1 + n2) - 9)

\* correction = 1 - 3 / (4 * (n1 + n2) - 9), as the fraction (4N - 12) / (4N - 9)
HedgesCorrection(n1, n2) == Frac(4 * (n1 + n2) - 12, 4 * (n1 + n2) - 9)

hedges_g(group1, group2) ==
    LET d == cohen_d(group1, group2)
        c == HedgesCorrection(Len(group1), Len(group2))
    IN IF d.kind = "nan" THEN FNaN
       ELSE IF d.kind = "inf"
            THEN (IF c.sign = 0 THEN FNaN ELSE FInf(d.sign * c.sign))
       ELSE IF d.kind = "num" THEN Frac(0, 1)
       ELSE Root(d.sign * c.sign, d.num * c.num * c.num, d.den * c.den * c.den)

calculate_effect_size(group1, group2, method) ==
    CASE method = "cohen_d" -> cohen_d(group1, group2)
      [] method = "glass_delta" -> glass_delta(group1, group2)
      [] method = "hedges_g" -> hedges_g(group1, group2)

---------------------------------------------------------------------------
(* interpret_effect_size, with config.EFFECT_SIZE_THRESHOLDS in tenths.    *)

THRESHOLD_NEGLIGIBLE == 2

THRESHOLD_SMALL == 5

THRESHOLD_MEDIUM == 8

\* a mutant of AbsBelow: abs(d) <= t / 10
AbsBelow_Inclusive(d, t) ==
    CASE d.kind = "num" -> 10 * d.num <= t * d.den
      [] d.kind = "root" -> 100 * d.num <= t * t * d.den
      [] OTHER -> FALSE

\* abs(d) < t / 10; False for NaN and for an infinity
AbsBelow(d, t) ==
    CASE d.kind = "num" -> 10 * d.num < t * d.den
      [] d.kind = "root" -> 100 * d.num < t * t * d.den
      [] OTHER -> FALSE

interpret_effect_size(d) ==
    IF AbsBelow(d, THRESHOLD_NEGLIGIBLE) THEN "Negligible"
    ELSE IF AbsBelow(d, THRESHOLD_SMALL) THEN "Small"
    ELSE IF AbsBelow(d, THRESHOLD_MEDIUM) THEN "Medium"
    ELSE "Large"

---------------------------------------------------------------------------
(* test_normality: the set of outcomes [ret, log], ret mapping each value  *)
(* of unique() to its result.                                              *)

\* the minimum sample size for the Shapiro-Wilk test (line 129)
ShapiroMinN == 3

\* a mutant of NormalityTested: a p-value on the threshold counts as normal
NormalityTested_AtOrAbove(s) ==
    [statistic |-> s.statistic, p_value |-> s.p_value,
     is_normal |-> PyBool(s.p_value # NaN /\ s.p_value[1] >= ALPHA)]

NormalityTested(s) == [statistic |-> s.statistic, p_value |-> s.p_value,
                       is_normal |-> PyBool(Gt(s.p_value, ALPHA))]

NormalityUndetermined == [statistic |-> NaN, p_value |-> NaN, is_normal |-> None]

RECURSIVE NormalityLoop(_, _, _, _)
NormalityLoop(groups, data_, group_col, measure_col) ==
    IF groups = <<>> THEN {[ret |-> <<>>, log |-> <<>>]}
    ELSE LET group == Head(groups)
             group_data == GroupData(data_, group_col, group, measure_col)
             rest == NormalityLoop(Tail(groups), data_, group_col, measure_col)
         IN IF Len(group_data) >= ShapiroMinN
            THEN {[ret |-> (group :> NormalityTested(s)) @@ r.ret,
                   log |-> <<LibCall("shapiro", group_data)>> \o r.log] :
                      s \in shapiro(group_data), r \in rest}
            ELSE {[ret |-> (group :> NormalityUndetermined) @@ r.ret,
                   log |-> r.log] : r \in rest}

test_normality(data_, group_col, measure_col) ==
    NormalityLoop(unique(Column(data_, group_col)), data_, group_col, measure_col)

---------------------------------------------------------------------------
(* test_homoscedasticity: the set of outcomes [ret, log].                  *)

\* groups.append(group_data) for each value of unique()
RECURSIVE GroupSamples(_, _, _, _)
GroupSamples(groups, data_, group_col, measure_col) ==
    IF groups = <<>> THEN <<>>
    ELSE <<GroupData(data_, group_col, Head(groups), measure_col)>>
             \o GroupSamples(Tail(groups), data_, group_col, measure_col)

\* a mutant of LeveneApplies: empty groups are not looked for
LeveneApplies_IgnoresEmpty(groups) == Len(groups) >= 2

LeveneApplies(groups) ==
    Len(groups) >= 2 /\ \A i \in 1..Len(groups) : Len(groups[i]) > 0

test_homoscedasticity(data_, group_col, measure_col) ==
    LET groups == GroupSamples(unique(Column(data_, group_col)), data_,
                               group_col, measure_col)
    IN IF LeveneApplies(groups)
       THEN {[ret |-> [statistic |-> l.statistic, p_value |-> l.p_value,
                       equal_variances |-> PyBool(Gt(l.p_value, ALPHA))],
              log |-> <<LibCall("levene", groups)>>] : l \in levene(groups)}
       ELSE {[ret |-> [statistic |-> NaN, p_value |-> NaN,
                       equal_variances |-> None],
              log |-> <<>>]}

---------------------------------------------------------------------------
(* run_statistical_tests: the set of outcomes [exc, ret, log].             *)

Returned(ret, log_) == [exc |-> "none", ret |-> ret, log |-> log_]

Raised(exc, message, log_) == [exc |-> exc, ret |-> message, log |-> log_]

\* a mutant of normality_ok: an undetermined group counts as not normal
normality_ok_NoneFails(normality) ==
    \A g \in DOMAIN normality : Truthy(normality[g].is_normal)

\* all(result.get('is_normal', False) for result in normality.values()
\*     if result.get('is_normal') is not None)
normality_ok(normality) ==
    \A g \in DOMAIN normality :
        normality[g].is_normal # None => Truthy(normality[g].is_normal)

\* results['homoscedasticity'].get('equal_variances', False), as `and` sees it
equal_var_ok(homoscedasticity) == Truthy(homoscedasticity.equal_variances)

recommended_test(normality, homoscedasticity) ==
    IF normality_ok(normality) /\ equal_var_ok(homoscedasticity)
    THEN "t_test" ELSE "mann_whitney"

\* a mutant of recommended_p: the t-test's p-value whichever test is named
recommended_p_FromTTest(test, t_p, u_p) == t_p

\* results['recommended_p'] = results[<the recommended test>]['p_value']
\* (lines 256 and 259)
recommended_p(test, t_p, u_p) == IF test = "t_test" THEN t_p ELSE u_p

SignificanceTest(r) == [statistic |-> r.statistic, p_value |-> r.p_value,
                        significant |-> PyBool(Lt(r.p_value, ALPHA))]

\* a mutant of GroupsValid: more than two groups pass
GroupsValid_AtLeastTwo(groups) == Len(groups) >= 2

\* the validation of the group column (lines 201-203)
GroupsValid(groups) == Len(groups) = 2

run_statistical_tests(data_, group_col, measure_col) ==
    LET groups == unique(Column(data_, group_col))
    IN IF ~GroupsValid(groups)
       THEN {Raised("ValueError", <<"Expected 2 groups, got ", Len(groups), groups>>, <<>>)}
       ELSE
       LET group1_data == GroupData(data_, group_col, groups[1], measure_col)
           group2_data == GroupData(data_, group_col, groups[2], measure_col)
       IN {Returned(
             [descriptives |-> calculate_descriptive_stats(data_, group_col, measure_col),
              effect_size |-> calculate_effect_size(group1_data, group2_data, "cohen_d"),
              hedges_g |-> calculate_effect_size(group1_data, group2_data, "hedges_g"),
              glass_delta |-> calculate_effect_size(group1_data, group2_data, "glass_delta"),
              t_test |-> SignificanceTest(t),
              mann_whitney |-> SignificanceTest(u),
              normality |-> nm.ret,
              homoscedasticity |-> hs.ret,
              recommended_test |-> recommended_test(nm.ret, hs.ret),
              recommended_p |-> recommended_p(recommended_test(nm.ret, hs.ret),
                                              t.p_value, u.p_value)],
             <<LibCall("ttest_ind", <<group1_data, group2_data>>),
               LibCall("mannwhitneyu", <<group1_data, group2_data>>)>>
                 \o nm.log \o hs.log) :
              t \in ttest_ind(group1_data, group2_data),
              u \in mannwhitneyu(group1_data, group2_data),
              nm \in test_normality(data_, group_col, measure_col),
              hs \in test_homoscedasticity(data_, group_col, measure_col)}

---------------------------------------------------------------------------
(* analyze_subgroups: the set of outcomes [exc, ret, log], ret mapping     *)
(* each level to a bundle or to an error record.  An optional argument is  *)
(* NotGiven or <<value>>.                                                  *)

NotGiven == <<>>

\* if min_size is None: min_size = MIN_SUBGROUP_SIZE
EffectiveMinSize(min_size) ==
    IF min_size = NotGiven THEN MIN_SUBGROUP_SIZE ELSE min_size[1]

InsufficientSample(n, min_size) ==
    [error |-> <<"Insufficient sample size (n=", n, ", min=", min_size, ")">>]

\* a mutant of MeetsMinimum: a level of exactly min_size rows is too small
MeetsMinimum_Strict(n, min_size) == n > min_size

\* a mutant of MeetsMinimum: the size of the level is not looked at
MeetsMinimum_Always(n, min_size) == TRUE

\* if len(subset) >= min_size
MeetsMinimum(n, min_size) == n >= min_size

\* a mutant of TryBattery: no try statement, the ValueError passes
TryBattery_NoCatch(o) == o

\* try: results = run_statistical_tests(...) except ValueError as e: {'error': str(e)}
\* what the try statement leaves of an outcome of the battery: a ValueError
\* becomes a returned error record, anything else passes
TryBattery(o) ==
    IF o.exc = "ValueError" THEN Returned([error |-> o.ret], o.log) ELSE o

\* a mutant of LevelThenRest: the loop ends at the first error record
LevelThenRest_StopAtError(subgroup, o, rest) ==
    IF o.exc # "none" THEN {o}
    ELSE IF "error" \in DOMAIN o.ret THEN {Returned((subgroup :> o.ret), o.log)}
    ELSE {IF r.exc # "none" THEN Raised(r.exc, r.ret, o.log \o r.log)
          ELSE Returned((subgroup :> o.ret) @@ r.ret, o.log \o r.log) : r \in rest}

\* one pass of the loop body for a level, then the rest of the loop
LevelThenRest(subgroup, o, rest) ==
    IF o.exc # "none" THEN {o}
    ELSE {IF r.exc # "none" THEN Raised(r.exc, r.ret, o.log \o r.log)
          ELSE Returned((subgroup :> o.ret) @@ r.ret, o.log \o r.log) : r \in rest}

RECURSIVE SubgroupLoop(_, _, _, _, _, _)
SubgroupLoop(levels, data_, subgroup_col, outcome_col, group_col, min_size) ==
    IF levels = <<>> THEN {Returned(<<>>, <<>>)}
    ELSE LET subgroup == Head(levels)
             rest == SubgroupLoop(Tail(levels), data_, subgroup_col, outcome_col,
                                  group_col, min_size)
             subset == Where(data_, subgroup_col, subgroup)
         IN IF isna(subgroup) THEN rest
            ELSE IF MeetsMinimum(Len(subset), min_size)
            THEN UNION {LevelThenRest(subgroup,
                            LET t == TryBattery(o)
                            IN [t EXCEPT !.log =
                                   <<LibCall("run_statistical_tests", subset)>> \o @],
                            rest) :
                        o \in run_statistical_tests(subset, group_col, outcome_col)}
            ELSE LevelThenRest(subgroup,
                     Returned(InsufficientSample(Len(subset), min_size), <<>>), rest)

analyze_subgroups(data_, subgroup_col, outcome_col, group_col, min_size) ==
    SubgroupLoop(unique(Column(data_, subgroup_col)), data_, subgroup_col,
                 outcome_col, group_col, EffectiveMinSize(min_size))

---------------------------------------------------------------------------
(* power_analysis.  The standard normal distribution is kept symbolic: the *)
(* value norm.cdf(x - norm.ppf(1 - a / 2)) is the record of x and a, with  *)
(* x a signed square root; it lies strictly between 0 and 1, grows with x  *)
(* and is a / 2 at x = 0.                                                  *)

\* alpha = ALPHA when alpha is None, in hundredths
PowerAlpha(alpha) == IF alpha = NotGiven THEN ALPHA ELSE alpha[1]

\* delta * np.sqrt(n / 2): NaN for a NaN delta and for an infinite delta
\* with n = 0
Drift(delta, n) ==
    CASE delta.kind = "nan" -> FNaN
      [] delta.kind = "inf" -> IF n = 0 THEN FNaN ELSE delta
      [] delta.kind = "root" -> Root(delta.sign, delta.num * n, delta.den * 2)
      [] OTHER -> Root(delta.sign, delta.num * delta.num * n, delta.den * delta.den * 2)

\* stats.norm.cdf(drift - stats.norm.ppf(1 - alpha / 2))
NormCdf(drift, alpha) ==
    CASE drift.kind = "nan" -> FNaN
      [] drift.kind = "inf" -> IF drift.sign > 0 THEN Frac(1, 1) ELSE Frac(0, 1)
      [] OTHER -> [kind |-> "cdf", sign |-> drift.sign, num |-> drift.num,
                   den |-> drift.den, alpha |-> alpha]

\* a < b for the floats of the Power Calculator: False when either is NaN;
\* a value of norm.cdf is above every number <= 0 and below every number
\* >= 1, and two of them with one alpha are ordered as their arguments
FLess(a, b) ==
    CASE a.kind = "nan" \/ b.kind = "nan" -> FALSE
      [] a.kind = "cdf" /\ b.kind = "cdf" ->
            a.sign * a.num * b.den < b.sign * b.num * a.den
      [] a.kind = "cdf" -> b.sign > 0 /\ b.num >= b.den
      [] b.kind = "cdf" -> a.sign <= 0
      [] OTHER -> a.sign * a.num * b.den < b.sign * b.num * a.den

\* a mutant of PyMin: min(b, a) in place of min(a, b)
PyMin_ArgsSwapped(a, b) == IF FLess(a, b) THEN a ELSE b

\* Python's min(a, b): b when b < a, else a (so a when b is NaN)
PyMin(a, b) == IF FLess(b, a) THEN b ELSE a

\* Python's max(a, b): b when b > a, else a
PyMax(a, b) == IF FLess(a, b) THEN b ELSE a

\* the except branch: max(0, min(1, power)) of the normal approximation
NormalApproximation(effect_size, sample_size_per_group, alpha) ==
    LET n == sample_size_per_group
        delta == effect_size
        power == NormCdf(Drift(delta, n), alpha)
    IN PyMax(Frac(0, 1), PyMin(Frac(1, 1), power))

\* stats.ttest_power: an AttributeError when scipy.stats has no such
\* routine, the routine's answer otherwise
power_analysis(effect_size, sample_size_per_group, alpha, env_) ==
    IF env_.ttest_power
    THEN [kind |-> "ttest_power", effect_size |-> effect_size,
          nobs |-> sample_size_per_group, alpha |-> PowerAlpha(alpha)]
    ELSE NormalApproximation(effect_size, sample_size_per_group, PowerAlpha(alpha))

---------------------------------------------------------------------------
(* The Baseline-Adjusted Comparator: run_baseline_adjusted_analysis and    *)
(* run_baseline_adjusted_fallback, each the set of outcomes [exc, ret,     *)
(* log].                                                                   *)

\* the least total sample size of both strategies (lines 479 and 594)
MIN_BASELINE_N == 10

\* the literal 0.05 of both strategies (lines 537 and 655), in hundredths
BASELINE_ALPHA == 5

\* data[[outcome_col, baseline_col, group_col]].dropna()
RECURSIVE CompleteRows(_, _, _, _)
CompleteRows(data_, outcome_col, baseline_col, group_col) ==
    IF data_ = <<>> THEN <<>>
    ELSE LET row == Head(data_)
             rest == CompleteRows(Tail(data_), outcome_col, baseline_col, group_col)
         IN IF row[outcome_col] = NaN \/ row[baseline_col] = NaN \/ isna(row[group_col])
            THEN rest
            ELSE <<[c \in {outcome_col, baseline_col, group_col} |-> row[c]]>> \o rest

\* whether data[[outcome_col, baseline_col, group_col]] finds its columns;
\* a KeyError otherwise.  A table without rows has the columns asked for.
HasColumns(data_, cols) == \A i \in 1..Len(data_) : cols \subseteq DOMAIN data_[i]

\* Series.values of a numeric column without missing cells
Values(s) == [i \in 1..Len(s) |-> s[i][1]]

\* a mutant of Caught: no except clause, the exception leaves the function
Caught_Escapes(prefix, e, log_) == Raised(e, <<prefix, e>>, log_)

\* except Exception as e: return {'error': f'<prefix>{str(e)}'} (lines 566-567
\* and 673-674)
Caught(prefix, e, log_) == Returned([error |-> <<prefix, e>>], log_)

InsufficientData == [error |-> <<"Insufficient data for baseline-adjusted analysis">>]

\* the labels the library sorts the levels of C(group_col) by
LabelOrder == <<"AI", "Control", "Other", "Treatment">>

\* the levels of a categorical column but the first in sorted order, which
\* is the reference level of the treatment coding
RECURSIVE SortedPresent(_, _)
SortedPresent(order, present) ==
    IF order = <<>> THEN <<>>
    ELSE IF Head(order) \in present
         THEN <<Head(order)>> \o SortedPresent(Tail(order), present)
         ELSE SortedPresent(Tail(order), present)

ContrastLevels(analysis_data, group_col) ==
    LET sorted == SortedPresent(LabelOrder,
                      {analysis_data[i][group_col] : i \in 1..Len(analysis_data)})
    IN {sorted[i] : i \in 2..Len(sorted)}

\* the name of a coefficient of the fitted model: 'C(<col>)[T.<level>]'
ContrastName(col, level) == <<"C(", col, ")[T.", level, "]">>

\* ols(formula, data).fit() followed by anova_lm(model, typ=2): the fit or
\* the table may fail with an exception; otherwise the model has an
\* intercept, a slope for the baseline, a coefficient for each level of the
\* group but the reference, a residual mean square (0 when the fit is
\* perfect), and the table has the F statistic and p-value of the group term
ols_anova(analysis_data, outcome_col, group_col, baseline_col) ==
    {[failed |-> TRUE]}
        \cup {[failed |-> FALSE,
               Intercept |-> Frac(2, 1),
               slope |-> Frac(1, 2),
               contrasts |-> [name \in {ContrastName(group_col, l) :
                                          l \in ContrastLevels(analysis_data, group_col)}
                                 |-> Frac(c, 1)],
               mse_resid |-> sd * sd,
               rsquared |-> Stat,
               F |-> Stat,
               p_value |-> Num(p)] :
                  c \in {-1, 1}, sd \in {0, 1, 2}, p \in PVals}

\* a mutant of GroupCoefficient: the coefficient of 'Control' is looked up
\* under the column the model was fitted with
GroupCoefficient_AnyColumn(fit) ==
    IF \E name \in DOMAIN fit.contrasts : name[4] = "Control"
    THEN fit.contrasts[CHOOSE name \in DOMAIN fit.contrasts : name[4] = "Control"]
    ELSE Frac(0, 1)

\* model.params.get('C(group)[T.Control]', 0)
GroupCoefficient(fit) ==
    IF ContrastName("group", "Control") \in DOMAIN fit.contrasts
    THEN fit.contrasts[ContrastName("group", "Control")]
    ELSE Frac(0, 1)

\* the raw comparison of both strategies: the arms are looked up by the
\* labels 'AI' and 'Control'
RawComparison(analysis_data, outcome_col, baseline_col, group_col) ==
    LET ai == Where(analysis_data, group_col, "AI")
        control == Where(analysis_data, group_col, "Control")
        ai_outcome == Values(Column(ai, outcome_col))
        control_outcome == Values(Column(control, outcome_col))
        ai_baseline == Mean(Values(Column(ai, baseline_col)))
        control_baseline == Mean(Values(Column(control, baseline_col)))
    IN [n_ai |-> Len(ai),
        n_control |-> Len(control),
        ai_raw_mean |-> Mean(ai_outcome),
        control_raw_mean |-> Mean(control_outcome),
        raw_effect_size |-> calculate_effect_size(ai_outcome, control_outcome, "cohen_d"),
        ai_baseline_mean |-> ai_baseline,
        control_baseline_mean |-> control_baseline,
        baseline_difference |-> FSub(ai_baseline, control_baseline)]

\* 'significant': group_p_value < 0.05
AncovaSignificant(group_p_value) == PyBool(Lt(group_p_value, BASELINE_ALPHA))

AncovaResult(analysis_data, fit, outcome_col, baseline_col, group_col) ==
    LET group_coef == GroupCoefficient(fit)
        baseline_mean == Mean(Values(Column(analysis_data, baseline_col)))
        ai_adjusted_mean == FAdd(fit.Intercept, FMul(fit.slope, baseline_mean))
        control_adjusted_mean ==
            FAdd(FAdd(fit.Intercept, group_coef), FMul(fit.slope, baseline_mean))
        pooled_residual_sd == Frac(Sqrt(fit.mse_resid), 1)
        adjusted_mean_diff == FSub(ai_adjusted_mean, control_adjusted_mean)
        adjusted_effect_size == FDiv(adjusted_mean_diff, pooled_residual_sd)
        raw == RawComparison(analysis_data, outcome_col, baseline_col, group_col)
    IN [n_total |-> Len(analysis_data),
        n_ai |-> raw.n_ai,
        n_control |-> raw.n_control,
        ancova_f_stat |-> fit.F,
        ancova_p_value |-> fit.p_value,
        significant |-> AncovaSignificant(fit.p_value),
        ai_adjusted_mean |-> ai_adjusted_mean,
        control_adjusted_mean |-> control_adjusted_mean,
        adjusted_mean_difference |-> adjusted_mean_diff,
        adjusted_effect_size |-> adjusted_effect_size,
        adjusted_effect_interpretation |-> interpret_effect_size(adjusted_effect_size),
        ai_raw_mean |-> raw.ai_raw_mean,
        control_raw_mean |-> raw.control_raw_mean,
        raw_effect_size |-> raw.raw_effect_size,
        raw_effect_interpretation |-> interpret_effect_size(raw.raw_effect_size),
        ai_baseline_mean |-> raw.ai_baseline_mean,
        control_baseline_mean |-> raw.control_baseline_mean,
        baseline_difference |-> raw.baseline_difference,
        r_squared |-> fit.rsquared,
        residual_std_error |-> pooled_residual_sd,
        model_summary |-> <<"summary">>]

\* a mutant of BelowBaselineMinimum: ten rows are too few as well
BelowBaselineMinimum_AtOrBelow(n) == n <= MIN_BASELINE_N

\* len(analysis_data) < 10
BelowBaselineMinimum(n) == n < MIN_BASELINE_N

\* scipy.stats.linregress(x, y): with all x equal the slope is undefined,
\* which the library reports as NaN or as a ValueError; otherwise a slope,
\* an intercept, a correlation and the p-value of the slope
linregress(x, y) ==
    IF \A i \in 1..Len(x) : x[i] = x[1]
    THEN {[failed |-> TRUE], [failed |-> FALSE, nan |-> TRUE]}
    ELSE {[failed |-> FALSE, nan |-> FALSE, slope |-> b, intercept |-> 0,
           r_value |-> Stat, p_value |-> Num(p)] : b \in {0, 1}, p \in PVals}

\* a mutant of FallbackSignificant: the flag follows the regression
FallbackSignificant_FromRegression(p_val, p_value) ==
    PyBool(Lt(p_value, BASELINE_ALPHA))

\* 'significant': p_val < 0.05, p_val the p-value of the t-test on the
\* residuals (p_value is the p-value of the regression)
FallbackSignificant(p_val, p_value) == PyBool(Lt(p_val, BASELINE_ALPHA))

\* the residuals y - (slope * x + intercept) of the rows of one arm, as the
\* 'baseline_adjusted_score' column selected by analysis_data[group_col] ==
\* label; every residual is NaN when the regression is
RECURSIVE ArmResiduals(_, _, _, _, _, _)
ArmResiduals(analysis_data, reg, label, outcome_col, baseline_col, group_col) ==
    IF analysis_data = <<>> THEN <<>>
    ELSE LET row == Head(analysis_data)
             rest == ArmResiduals(Tail(analysis_data), reg, label,
                                  outcome_col, baseline_col, group_col)
         IN IF MaskEq(row[group_col], label)
            THEN <<row[outcome_col][1]
                     - (reg.slope * row[baseline_col][1] + reg.intercept)>> \o rest
            ELSE rest

FallbackResult(analysis_data, reg, t, outcome_col, baseline_col, group_col) ==
    LET defined == ~reg.nan
        fit == IF defined THEN reg ELSE [slope |-> 0, intercept |-> 0]
        ai_residuals == ArmResiduals(analysis_data, fit, "AI",
                                     outcome_col, baseline_col, group_col)
        control_residuals == ArmResiduals(analysis_data, fit, "Control",
                                          outcome_col, baseline_col, group_col)
        effect_size == IF defined
                       THEN calculate_effect_size(ai_residuals, control_residuals, "cohen_d")
                       ELSE FNaN
        ai_mean == IF defined THEN Mean(ai_residuals) ELSE FNaN
        control_mean == IF defined THEN Mean(control_residuals) ELSE FNaN
        raw == RawComparison(analysis_data, outcome_col, baseline_col, group_col)
    IN [method |-> "residual_scores",
        n_total |-> Len(analysis_data),
        n_ai |-> Len(ai_residuals),
        n_control |-> Len(control_residuals),
        ai_adjusted_mean |-> ai_mean,
        control_adjusted_mean |-> control_mean,
        adjusted_mean_difference |-> FSub(ai_mean, control_mean),
        adjusted_effect_size |-> effect_size,
        adjusted_effect_interpretation |-> interpret_effect_size(effect_size),
        adjusted_t_stat |-> t.statistic,
        adjusted_p_value |-> t.p_value,
        significant |-> FallbackSignificant(t.p_value,
                            IF defined THEN reg.p_value ELSE NaN),
        ai_raw_mean |-> raw.ai_raw_mean,
        control_raw_mean |-> raw.control_raw_mean,
        raw_effect_size |-> raw.raw_effect_size,
        raw_effect_interpretation |-> interpret_effect_size(raw.raw_effect_size),
        ai_baseline_mean |-> raw.ai_baseline_mean,
        control_baseline_mean |-> raw.control_baseline_mean,
        baseline_difference |-> raw.baseline_difference,
        baseline_outcome_correlation |-> IF defined THEN reg.r_value ELSE NaN,
        baseline_outcome_r_squared |-> IF defined THEN <<"statistic", "**2">> ELSE NaN]

\* the t-test on the residuals: NaN when the residuals are
ResidualTest(reg, ai_residuals, control_residuals) ==
    IF reg.nan THEN {[statistic |-> NaN, p_value |-> NaN]}
    ELSE ttest_ind(ai_residuals, control_residuals)

run_baseline_adjusted_fallback(data_, outcome_col, baseline_col, group_col) ==
    LET analysis_data == CompleteRows(data_, outcome_col, baseline_col, group_col)
        x == Values(Column(analysis_data, baseline_col))
        y == Values(Column(analysis_data, outcome_col))
        called == LibCall("linregress", <<x, y>>)
    IN IF ~HasColumns(data_, {outcome_col, baseline_col, group_col})
       THEN {Caught("Error in fallback baseline-adjusted analysis: ", "KeyError", <<>>)}
       ELSE IF BelowBaselineMinimum(Len(analysis_data))
       THEN {Returned(InsufficientData, <<>>)}
       ELSE UNION {
              IF reg.failed
              THEN {Caught("Error in fallback baseline-adjusted analysis: ",
                           "linregress", <<called>>)}
              ELSE LET fit == IF reg.nan THEN [slope |-> 0, intercept |-> 0] ELSE reg
                       ai_residuals == ArmResiduals(analysis_data, fit, "AI",
                                           outcome_col, baseline_col, group_col)
                       control_residuals == ArmResiduals(analysis_data, fit, "Control",
                                                outcome_col, baseline_col, group_col)
                   IN {Returned(FallbackResult(analysis_data, reg, t,
                                               outcome_col, baseline_col, group_col),
                                <<LibAnswer("linregress", called.arg,
                                            IF reg.nan THEN NaN ELSE reg.p_value),
                                  LibAnswer("ttest_ind",
                                            <<ai_residuals, control_residuals>>,
                                            t.p_value)>>) :
                          t \in ResidualTest(reg, ai_residuals, control_residuals)}
              : reg \in linregress(x, y)}

\* import statsmodels.api, statsmodels.formula.api.ols and
\* statsmodels.stats.anova.anova_lm: an ImportError without the package
ImportsStatsmodels(env_) == env_.statsmodels

run_baseline_adjusted_analysis(data_, env_, outcome_col, baseline_col, group_col) ==
    LET analysis_data == CompleteRows(data_, outcome_col, baseline_col, group_col)
        fitted == <<LibCall("ols", Len(analysis_data))>>
    IN IF ~ImportsStatsmodels(env_)
       THEN {[o EXCEPT !.log = <<LibCall("run_baseline_adjusted_fallback",
                                         <<outcome_col, baseline_col, group_col>>)>>
                                 \o @] :
                o \in run_baseline_adjusted_fallback(data_, outcome_col,
                                                     baseline_col, group_col)}
       ELSE IF ~HasColumns(data_, {outcome_col, baseline_col, group_col})
       THEN {Caught("Error in baseline-adjusted analysis: ", "KeyError", <<>>)}
       ELSE IF BelowBaselineMinimum(Len(analysis_data))
       THEN {Returned(InsufficientData, <<>>)}
       ELSE {IF fit.failed
             THEN Caught("Error in baseline-adjusted analysis: ", "ols", fitted)
             ELSE Returned(AncovaResult(analysis_data, fit, outcome_col,
                                        baseline_col, group_col),
                           fitted \o <<LibAnswer("anova_lm", group_col, fit.p_value)>>)
             : fit \in ols_anova(analysis_data, outcome_col, group_col, baseline_col)}

---------------------------------------------------------------------------
(* run_dimensional_baseline_adjusted_analysis: the set of outcomes [exc,    *)
(* ret, log], ret mapping 'overall' and each dimension label to the record *)
(* of its comparison.                                                      *)

\* data_processing.get_self_efficacy_dimensions(): the label of each
\* dimension number, in the order of the dict
get_self_efficacy_dimensions ==
    <<"relevant", "complete", "helpful", "accurate", "appropriate", "clear",
      "empathetic">>

\* col in participant_data.columns
InColumns(participant_data, col) == HasColumns(participant_data, {col})

\* dim_results['dimension_label'] = ...; dim_results['dimension_number'] = ...
\* on the record a comparison returned; 'overall' is given no number
Labelled(o, dimension_label, dimension_num) ==
    IF o.exc # "none" THEN o
    ELSE [o EXCEPT !.ret =
            (IF dimension_num = NotGiven
             THEN [dimension_label |-> dimension_label]
             ELSE [dimension_label |-> dimension_label,
                   dimension_number |-> dimension_num[1]]) @@ @]

\* a mutant of StoreThenRest: an error record ends the loop
StoreThenRest_StopAtError(key, o, rest) ==
    IF o.exc # "none" THEN {o}
    ELSE IF "error" \in DOMAIN o.ret THEN {Returned((key :> o.ret), o.log)}
    ELSE {IF r.exc # "none" THEN Raised(r.exc, r.ret, o.log \o r.log)
          ELSE Returned((key :> o.ret) @@ r.ret, o.log \o r.log) : r \in rest}

\* adjusted_results[key] = <the record>, then the rest of the function
StoreThenRest(key, o, rest) ==
    IF o.exc # "none" THEN {o}
    ELSE {IF r.exc # "none" THEN Raised(r.exc, r.ret, o.log \o r.log)
          ELSE Returned((key :> o.ret) @@ r.ret, o.log \o r.log) : r \in rest}

\* one comparison, with the call in front of what it logged
Compared(participant_data, env_, post_col, pre_col) ==
    {[o EXCEPT !.log = <<LibCall("run_baseline_adjusted_analysis",
                                 <<post_col, pre_col, "group">>)>> \o @] :
        o \in run_baseline_adjusted_analysis(participant_data, env_,
                                             post_col, pre_col, "group")}

\* the part after the loop: overall self-efficacy, then return
OverallThenReturn(participant_data, env_) ==
    IF InColumns(participant_data, "pre_self_efficacy")
          /\ InColumns(participant_data, "post_self_efficacy")
    THEN UNION {StoreThenRest("overall", Labelled(o, "overall", NotGiven),
                              {Returned(<<>>, <<>>)}) :
                   o \in Compared(participant_data, env_,
                                  "post_self_efficacy", "pre_self_efficacy")}
    ELSE {Returned(<<>>, <<>>)}

\* the loop over dimensions.items(), from dimension_num on
RECURSIVE DimensionLoop(_, _, _)
DimensionLoop(dimension_num, participant_data, env_) ==
    IF dimension_num > Len(get_self_efficacy_dimensions)
    THEN OverallThenReturn(participant_data, env_)
    ELSE LET dimension_label == get_self_efficacy_dimensions[dimension_num]
             pre_col == "pre_se_" \o dimension_label
             post_col == "post_se_" \o dimension_label
             rest == DimensionLoop(dimension_num + 1, participant_data, env_)
         IN IF InColumns(participant_data, pre_col)
                  /\ InColumns(participant_data, post_col)
            THEN UNION {StoreThenRest(dimension_label,
                            Labelled(o, dimension_label, Num(dimension_num)), rest) :
                        o \in Compared(participant_data, env_, post_col, pre_col)}
            ELSE rest

run_dimensional_baseline_adjusted_analysis(participant_data, env_) ==
    DimensionLoop(1, participant_data, env_)

---------------------------------------------------------------------------
(* data_processing.safe_json_parse.  A JSON text is the sequence of its    *)
(* tokens (whitespace carries no meaning), a Python value a record tagged  *)
(* with its type.                                                          *)

PyDict(items) == [type |-> "dict", items |-> items]
PyList(elements) == [type |-> "list", elements |-> elements]
PyStr(chars) == [type |-> "str", chars |-> chars]
PyInt(n) == [type |-> "int", int |-> n]
PyFloat(x) == [type |-> "float", float |-> x]
PyNone == [type |-> "NoneType"]

\* a JSON text held in a str
JsonText(tokens) == [type |-> "str", tokens |-> tokens]

\* the string literal "k", the number 1 and null next to the punctuation
StringToken == "\"k\""
JsonTokens == {"{", "}", "[", "]", ":", ",", StringToken, "1", "null"}

NoParse == [ok |-> FALSE, value |-> PyNone, end |-> 0]
Parsed(value, end) == [ok |-> TRUE, value |-> value, end |-> end]

\* the decoder of the json library: the value that starts at s[idx] and
\* the index after it; the members of an object from a key on (a repeated
\* key keeps its last value); the elements of an array from a value on
RECURSIVE ParseValue(_, _)
RECURSIVE ParseMembers(_, _, _)
RECURSIVE ParseElements(_, _, _)
ParseValue(s, idx) ==
    IF idx > Len(s) THEN NoParse
    ELSE CASE s[idx] = "{" ->
                IF idx + 1 <= Len(s) /\ s[idx + 1] = "}"
                THEN Parsed(PyDict(<<>>), idx + 2)
                ELSE ParseMembers(s, idx + 1, <<>>)
           [] s[idx] = "[" ->
                IF idx + 1 <= Len(s) /\ s[idx + 1] = "]"
                THEN Parsed(PyList(<<>>), idx + 2)
                ELSE ParseElements(s, idx + 1, <<>>)
           [] s[idx] = StringToken -> Parsed(PyStr("k"), idx + 1)
           [] s[idx] = "1" -> Parsed(PyInt(1), idx + 1)
           [] s[idx] = "null" -> Parsed(PyNone, idx + 1)
           [] OTHER -> NoParse

ParseMembers(s, idx, items) ==
    IF idx + 1 > Len(s) \/ s[idx] # StringToken \/ s[idx + 1] # ":" THEN NoParse
    ELSE LET v == ParseValue(s, idx + 2)
             items_ == ("k" :> v.value) @@ items
         IN IF ~v.ok \/ v.end > Len(s) THEN NoParse
            ELSE IF s[v.end] = "}" THEN Parsed(PyDict(items_), v.end + 1)
            ELSE IF s[v.end] = "," THEN ParseMembers(s, v.end + 1, items_)
            ELSE NoParse

ParseElements(s, idx, elements) ==
    LET v == ParseValue(s, idx)
    IN IF ~v.ok \/ v.end > Len(s) THEN NoParse
       ELSE IF s[v.end] = "]" THEN Parsed(PyList(Append(elements, v.value)), v.end + 1)
       ELSE IF s[v.end] = "," THEN ParseElements(s, v.end + 1, Append(elements, v.value))
       ELSE NoParse

\* json.loads: a TypeError for what is not a str, a JSONDecodeError for a
\* text that is not one JSON value, and the value otherwise
json_loads(json_string) ==
    IF json_string.type # "str"
    THEN Raised("TypeError", "the JSON object must be str, bytes or bytearray", <<>>)
    ELSE LET v == ParseValue(json_string.tokens, 1)
         IN IF v.ok /\ v.end = Len(json_string.tokens) + 1
            THEN Returned(v.value, <<>>)
            ELSE Raised("JSONDecodeError", "Expecting value", <<>>)

\* try: return json.loads(json_string)
\* except (json.JSONDecodeError, TypeError): return {}
ParsedOrEmpty(o) ==
    IF o.exc \in {"JSONDecodeError", "TypeError"}
    THEN Returned(PyDict(<<>>), <<>>)
    ELSE o

safe_json_parse(json_string) == {ParsedOrEmpty(json_loads(json_string))}

---------------------------------------------------------------------------
(* The tables the operations are called on: up to three runs of equal      *)
(* rows.  The outcome of a row with a value depends on its position, so    *)
(* that groups differ in mean and spread.                                  *)

RECURSIVE Repeat(_, _)
Repeat(row, n) == IF n = 0 THEN <<>> ELSE <<row>> \o Repeat(row, n - 1)

Row(g, sub, hasOutcome, hasBaseline) ==
    [group |-> g, subgroup |-> sub,
     outcome |-> IF hasOutcome THEN Num(1) ELSE NaN,
     baseline |-> IF hasBaseline THEN Num(1) ELSE NaN]

\* the numeric cells that are present take the values 0, 1, 2 by position
Spread(rows) ==
    [i \in 1..Len(rows) |->
        [rows[i] EXCEPT !.outcome = IF @ = NaN THEN NaN ELSE Num(i % 3),
                        !.baseline = IF @ = NaN THEN NaN ELSE Num((i * i) % 3)]]

\* rows of the two arms with and without an outcome, of a third level and
\* of a missing group label
BatteryRows ==
    {Row(g, "all", o, TRUE) : g \in {"AI", "Control"}, o \in BOOLEAN}
        \cup {Row(g, "all", TRUE, TRUE) : g \in {"Other", NA}}

\* a call: the function and its scalar arguments
\* two runs of up to MaxRun rows and a last run of at most one row
BatteryTables ==
    {Spread(Repeat(r1, n1) \o Repeat(r2, n2) \o Repeat(r3, n3)) :
        r1 \in BatteryRows, r2 \in BatteryRows, r3 \in BatteryRows,
        n1 \in 0..MaxRun, n2 \in 0..MaxRun, n3 \in 0..1}

Call(fn, args) == [fn |-> fn, args |-> args]

NoCall == Call("none", <<>>)

NoResult == [exc |-> "none", ret |-> <<>>]

Outcome(o) == [exc |-> o.exc, ret |-> o.ret]

---------------------------------------------------------------------------
(* The Test Battery and the Assumption Checks, each called on the table.   *)

InitBattery ==
    /\ data \in BatteryTables
    /\ env = [statsmodels |-> TRUE, ALPHA |-> ShippedAlpha]
    /\ call = NoCall
    /\ result = NoResult
    /\ log = <<>>

CallRunStatisticalTests ==
    /\ call = NoCall
    /\ \E o \in run_statistical_tests(data, "group", "outcome") :
          /\ result' = Outcome(o)
          /\ log' = o.log
    /\ call' = Call("run_statistical_tests", <<>>)
    /\ UNCHANGED <<data, env>>

CallTestNormality ==
    /\ call = NoCall
    /\ \E o \in test_normality(data, "group", "outcome") :
          /\ result' = [exc |-> "none", ret |-> o.ret]
          /\ log' = o.log
    /\ call' = Call("test_normality", <<>>)
    /\ UNCHANGED <<data, env>>

CallTestHomoscedasticity ==
    /\ call = NoCall
    /\ \E o \in test_homoscedasticity(data, "group", "outcome") :
          /\ result' = [exc |-> "none", ret |-> o.ret]
          /\ log' = o.log
    /\ call' = Call("test_homoscedasticity", <<>>)
    /\ UNCHANGED <<data, env>>

CallCalculateDescriptiveStats ==
    /\ call = NoCall
    /\ result' = [exc |-> "none",
                  ret |-> calculate_descriptive_stats(data, "group", "outcome")]
    /\ log' = <<>>
    /\ call' = Call("calculate_descriptive_stats", <<>>)
    /\ UNCHANGED <<data, env>>

\* the caller takes the result; the next call starts from the same table
Return ==
    /\ call # NoCall
    /\ call' = NoCall
    /\ result' = NoResult
    /\ log' = <<>>
    /\ UNCHANGED <<data, env>>

NextBattery ==
    \/ Return
    \/ CallRunStatisticalTests
    \/ CallTestNormality
    \/ CallTestHomoscedasticity
    \/ CallCalculateDescriptiveStats

SpecBattery == InitBattery /\ [][NextBattery]_vars

---------------------------------------------------------------------------
(* The Subgroup Runner, called on tables with a partition column, with     *)
(* and without a minimum size.                                             *)

SubgroupLevels == {"18-25", "26-35", NA}

\* rows of both arms in both levels, and one with no level
SubgroupRows ==
    {Row(g, sub, TRUE, TRUE) : g \in {"AI", "Control"}, sub \in SubgroupLevels \ {NA}}
        \cup {Row("AI", NA, TRUE, TRUE)}

\* tables with a level of one row less than, or exactly, the default minimum
DefaultSizeTables ==
    {Spread(Repeat(r1, n1) \o Repeat(r2, n2)) :
        r1 \in SubgroupRows, r2 \in SubgroupRows,
        n1 \in {MIN_SUBGROUP_SIZE - 1, MIN_SUBGROUP_SIZE}, n2 \in 0..1}

\* two runs of up to MaxLevelRun rows and a last run of at most one row
LevelTables ==
    {Spread(Repeat(r1, n1) \o Repeat(r2, n2) \o Repeat(r3, n3)) :
        r1 \in SubgroupRows, r2 \in SubgroupRows, r3 \in SubgroupRows,
        n1 \in 0..MaxLevelRun, n2 \in 0..MaxLevelRun, n3 \in 0..1}

\* min_size: not given, 1 and 2
MinSizes == {NotGiven, Num(1), Num(2)}

InitSubgroups ==
    /\ data \in LevelTables \cup DefaultSizeTables
    /\ env = [statsmodels |-> TRUE, ALPHA |-> ShippedAlpha]
    /\ call = NoCall
    /\ result = NoResult
    /\ log = <<>>

CallAnalyzeSubgroups ==
    /\ call = NoCall
    /\ \E min_size \in MinSizes :
          /\ \E o \in analyze_subgroups(data, "subgroup", "outcome", "group", min_size) :
                /\ result' = Outcome(o)
                /\ log' = o.log
          /\ call' = Call("analyze_subgroups", <<min_size>>)
    /\ UNCHANGED <<data, env>>

NextSubgroups ==
    \/ Return
    \/ CallAnalyzeSubgroups

SpecSubgroups == InitSubgroups /\ [][NextSubgroups]_vars

---------------------------------------------------------------------------
(* What the claims speak of, read off the table itself.                    *)

\* the distinct values of a column; the missing marker counts as a value
DistinctValues(col) == {data[i][col] : i \in 1..Len(data)}

\* the rows of a level of a categorical column (none for the missing marker)
RowsAt(col, v) == {i \in 1..Len(data) : v # NA /\ data[i][col] = v}

\* the rows of a group that have an outcome
Observed(g) == {i \in RowsAt("group", g) : data[i].outcome # NaN}

\* the distinct group values among the rows of a partition level
ArmsAt(level) == {data[i].group : i \in RowsAt("subgroup", level)}

LogCalls(fn) == {k \in 1..Len(log) : log[k].fn = fn}

BundleKeys == {"descriptives", "effect_size", "hedges_g", "glass_delta", "t_test",
               "mann_whitney", "normality", "homoscedasticity",
               "recommended_test", "recommended_p"}

IsBundle(r) == BundleKeys \subseteq DOMAIN r /\ "error" \notin DOMAIN r

IsErrorRecord(r) == DOMAIN r = {"error"}

BatteryCalled == call.fn = "run_statistical_tests"

BatteryReturned == BatteryCalled /\ result.exc = "none"

---------------------------------------------------------------------------
(* The Baseline-Adjusted Comparator, called with and without statsmodels   *)
(* installed on tables of two arms of up to MaxArm complete rows each and  *)
(* up to one row missing each of the outcome, the baseline and the group.  *)

ArmPairs == {<<"AI", "Control">>, <<"Control", "AI">>, <<"Control", "Treatment">>}

\* the outcomes take the values 0, 1, 2 by position, the baseline is 1
Flat(rows) ==
    [i \in 1..Len(rows) |->
        [rows[i] EXCEPT !.outcome = IF @ = NaN THEN NaN ELSE Num(i % 3)]]

BaselineTables ==
    {LET rows == Repeat(Row(arms[1], "all", TRUE, TRUE), n1)
                   \o Repeat(Row(arms[2], "all", TRUE, TRUE), n2)
                   \o Repeat(Row(arms[1], "all", FALSE, TRUE), m1)
                   \o Repeat(Row(arms[2], "all", TRUE, FALSE), m2)
                   \o Repeat(Row(NA, "all", TRUE, TRUE), m3)
     IN IF flat THEN Flat(rows) ELSE Spread(rows) :
        arms \in ArmPairs, n1 \in 0..MaxArm, n2 \in 0..MaxArm,
        m1 \in 0..1, m2 \in 0..1, m3 \in 0..1, flat \in BOOLEAN}

InitBaseline ==
    /\ data \in BaselineTables
    /\ env \in {[statsmodels |-> b, ALPHA |-> ShippedAlpha] : b \in BOOLEAN}
    /\ call = NoCall
    /\ result = NoResult
    /\ log = <<>>

CallRunBaselineAdjustedAnalysis ==
    /\ call = NoCall
    /\ \E o \in run_baseline_adjusted_analysis(data, env, "outcome", "baseline", "group") :
          /\ result' = Outcome(o)
          /\ log' = o.log
    /\ call' = Call("run_baseline_adjusted_analysis", <<>>)
    /\ UNCHANGED <<data, env>>

CallRunBaselineAdjustedFallback ==
    /\ call = NoCall
    /\ \E o \in run_baseline_adjusted_fallback(data, "outcome", "baseline", "group") :
          /\ result' = Outcome(o)
          /\ log' = o.log
    /\ call' = Call("run_baseline_adjusted_fallback", <<>>)
    /\ UNCHANGED <<data, env>>

NextBaseline ==
    \/ Return
    \/ CallRunBaselineAdjustedAnalysis
    \/ CallRunBaselineAdjustedFallback

SpecBaseline == InitBaseline /\ [][NextBaseline]_vars

---------------------------------------------------------------------------
(* The Test Battery, the Assumption Checks and the Baseline-Adjusted        *)
(* Comparator called on one table under a configured alpha, the Comparator *)
(* with the columns the caller names: the group column is 'group' or       *)
(* 'condition', which holds the same labels, and the outcome column may be *)
(* one the table does not have.                                            *)

\* the values config.ALPHA is set to: 0.01, 0.05 and 0.10
Alphas == {1, ShippedAlpha, 10}

\* two arms of one row less than half the Comparator's minimum, or of half
\* of it, each
CoreTables ==
    {LET rows == Repeat(Row(arms[1], "all", TRUE, TRUE), n1)
                   \o Repeat(Row(arms[2], "all", TRUE, TRUE), n2)
         cells == IF flat THEN Flat(rows) ELSE Spread(rows)
     IN [i \in 1..Len(cells) |-> cells[i] @@ [condition |-> cells[i].group]] :
        arms \in ArmPairs, flat \in BOOLEAN,
        n1 \in {MIN_BASELINE_N \div 2 - 1, MIN_BASELINE_N \div 2},
        n2 \in {MIN_BASELINE_N \div 2 - 1, MIN_BASELINE_N \div 2}}

OutcomeColumns == {"outcome", "absent"}

GroupColumns == {"group", "condition"}

InitCore ==
    /\ data \in CoreTables
    /\ env \in {[statsmodels |-> b, ALPHA |-> a] : b \in BOOLEAN, a \in Alphas}
    /\ call = NoCall
    /\ result = NoResult
    /\ log = <<>>

CallAnalysisWithColumns ==
    /\ call = NoCall
    /\ \E outcome_col \in OutcomeColumns, group_col \in GroupColumns :
          /\ \E o \in run_baseline_adjusted_analysis(data, env, outcome_col,
                                                      "baseline", group_col) :
                /\ result' = Outcome(o)
                /\ log' = o.log
          /\ call' = Call("run_baseline_adjusted_analysis",
                          <<outcome_col, "baseline", group_col>>)
    /\ UNCHANGED <<data, env>>

CallFallbackWithColumns ==
    /\ call = NoCall
    /\ \E outcome_col \in OutcomeColumns, group_col \in GroupColumns :
          /\ \E o \in run_baseline_adjusted_fallback(data, outcome_col,
                                                      "baseline", group_col) :
                /\ result' = Outcome(o)
                /\ log' = o.log
          /\ call' = Call("run_baseline_adjusted_fallback",
                          <<outcome_col, "baseline", group_col>>)
    /\ UNCHANGED <<data, env>>

NextCore ==
    \/ Return
    \/ CallRunStatisticalTests
    \/ CallTestNormality
    \/ CallTestHomoscedasticity
    \/ CallAnalysisWithColumns
    \/ CallFallbackWithColumns

SpecCore == InitCore /\ [][NextCore]_vars

(* The dimensional comparison, called with and without statsmodels         *)
(* installed on tables of MIN_BASELINE_N rows, five per arm.  Of the first *)
(* dimension, the last dimension and overall self-efficacy a table holds   *)
(* no column, only the pre column, both columns with one pre value         *)
(* missing, or both columns complete; it holds no column of the other      *)
(* dimensions.                                                             *)

DimensionKinds == {"absent", "pre_only", "thin", "full"}

TabledEntries == <<"relevant", "empathetic", "overall">>

PreColumn(label) ==
    IF label = "overall" THEN "pre_self_efficacy" ELSE "pre_se_" \o label

PostColumn(label) ==
    IF label = "overall" THEN "post_self_efficacy" ELSE "post_se_" \o label

\* the cells of row i in the columns of one entry
EntryCells(label, kind, i) ==
    LET pre == IF kind = "thin" /\ i = 1 THEN NaN ELSE Num((i * i) % 3)
    IN CASE kind = "absent" -> <<>>
         [] kind = "pre_only" -> (PreColumn(label) :> pre)
         [] OTHER -> (PreColumn(label) :> pre) @@ (PostColumn(label) :> Num(i % 3))

DimensionTables ==
    {[i \in 1..MIN_BASELINE_N |->
        [group |-> IF 2 * i <= MIN_BASELINE_N THEN "AI" ELSE "Control"]
            @@ EntryCells(TabledEntries[1], kinds[1], i)
            @@ EntryCells(TabledEntries[2], kinds[2], i)
            @@ EntryCells(TabledEntries[3], kinds[3], i)] :
        kinds \in [1..Len(TabledEntries) -> DimensionKinds]}

InitDimensions ==
    /\ data \in DimensionTables
    /\ env \in {[statsmodels |-> b, ALPHA |-> ShippedAlpha] : b \in BOOLEAN}
    /\ call = NoCall
    /\ result = NoResult
    /\ log = <<>>

CallRunDimensional ==
    /\ call = NoCall
    /\ \E o \in run_dimensional_baseline_adjusted_analysis(data, env) :
          /\ result' = Outcome(o)
          /\ log' = o.log
    /\ call' = Call("run_dimensional_baseline_adjusted_analysis", <<>>)
    /\ UNCHANGED <<data, env>>

NextDimensions ==
    \/ Return
    \/ CallRunDimensional

SpecDimensions == InitDimensions /\ [][NextDimensions]_vars

(* safe_json_parse, called on the cells a CSV column can hold: a text of   *)
(* up to MaxJson tokens, or a missing value (None, or the float NaN that   *)
(* pandas reads an empty cell as) or a number in place of a str.           *)

MaxJson == 5

RECURSIVE TokenSeqs(_)
TokenSeqs(n) ==
    IF n = 0 THEN {<<>>}
    ELSE LET shorter == TokenSeqs(n - 1)
         IN shorter \cup {Append(s, t) : s \in shorter, t \in JsonTokens}

\* what a cell holds in place of a str
NonTextCells == {PyNone, PyFloat(NaN), PyInt(1)}

InitParse ==
    /\ data \in {JsonText(s) : s \in TokenSeqs(MaxJson)} \cup NonTextCells
    /\ env = [statsmodels |-> TRUE, ALPHA |-> ShippedAlpha]
    /\ call = NoCall
    /\ result = NoResult
    /\ log = <<>>

CallSafeJsonParse ==
    /\ call = NoCall
    /\ \E o \in safe_json_parse(data) :
          /\ result' = Outcome(o)
          /\ log' = o.log
    /\ call' = Call("safe_json_parse", <<>>)
    /\ UNCHANGED <<data, env>>

NextParse ==
    \/ Return
    \/ CallSafeJsonParse

SpecParse == InitParse /\ [][NextParse]_vars

---------------------------------------------------------------------------
(* DataFrames as objects.  Here data is the sequence of the frames that    *)
(* exist, data[1] the table the caller passes in, and a reference the      *)
(* index of a frame: a new frame is appended, an assignment of a column    *)
(* changes the frame it is made on.  Each function below is the sequence   *)
(* of frames its body leaves behind, statement by statement.               *)

\* a new frame with the given rows
FrameNew(heap, rows) == [heap |-> Append(heap, rows), ref |-> Len(heap) + 1]

\* a mutant of FrameCopy: the same object under a second name
FrameCopy_Alias(heap, ref) == [heap |-> heap, ref |-> ref]

\* DataFrame.copy()
FrameCopy(heap, ref) == FrameNew(heap, heap[ref])

\* frame[frame[col] == value]: a new frame
FrameWhere(heap, ref, col, value) == FrameNew(heap, Where(heap[ref], col, value))

\* a mutant of FrameSetItem: the column is written to the table passed in,
\* rows without a value getting NaN
FrameSetItem_Input(heap, ref, col, values) ==
    [heap |-> [heap EXCEPT ![1] =
                  [i \in 1..Len(@) |->
                      (col :> (IF i <= Len(values) THEN values[i] ELSE NaN)) @@ @[i]]],
     ref |-> ref]

\* frame[col] = values
FrameSetItem(heap, ref, col, values) ==
    [heap |-> [heap EXCEPT ![ref] = [i \in 1..Len(@) |-> (col :> values[i]) @@ @[i]]],
     ref |-> ref]

\* one frame[frame[col] == value] per value, in the order of the values
RECURSIVE MaskFrames(_, _, _, _)
MaskFrames(heap, ref, col, values) ==
    IF values = <<>> THEN heap
    ELSE MaskFrames(FrameWhere(heap, ref, col, Head(values)).heap, ref, col,
                    Tail(values))

\* the selections by group of calculate_descriptive_stats, test_normality,
\* test_homoscedasticity and run_statistical_tests
GroupFrames(heap, ref, group_col) ==
    MaskFrames(heap, ref, group_col, unique(Column(heap[ref], group_col)))

\* analyze_subgroups: the subset of each level, with the selections of the
\* battery run on it when it is large enough
RECURSIVE SubgroupFrames(_, _, _, _, _, _)
SubgroupFrames(heap, ref, subgroups, subgroup_col, group_col, min_size) ==
    IF subgroups = <<>> THEN heap
    ELSE IF isna(Head(subgroups))
    THEN SubgroupFrames(heap, ref, Tail(subgroups), subgroup_col, group_col, min_size)
    ELSE LET subset == FrameWhere(heap, ref, subgroup_col, Head(subgroups))
             tested == IF MeetsMinimum(Len(subset.heap[subset.ref]), min_size)
                       THEN GroupFrames(subset.heap, subset.ref, group_col)
                       ELSE subset.heap
         IN SubgroupFrames(tested, ref, Tail(subgroups), subgroup_col, group_col,
                           min_size)

\* data[[outcome_col, baseline_col, group_col]].dropna(): a new frame
CleanFrame(heap, ref, outcome_col, baseline_col, group_col) ==
    FrameNew(heap, CompleteRows(heap[ref], outcome_col, baseline_col, group_col))

\* y - predicted of a row, kept as the pair it is computed from
Residual(row, outcome_col, baseline_col) ==
    <<"residual", row[outcome_col], row[baseline_col]>>

\* run_baseline_adjusted_fallback with outcome o: the cleaned frame, and
\* when the regression was fitted its copy with the residual column and the
\* selections of the two arms
FallbackFrames(heap, ref, o, outcome_col, baseline_col, group_col) ==
    IF ~HasColumns(heap[ref], {outcome_col, baseline_col, group_col}) THEN heap
    ELSE LET cleaned == CleanFrame(heap, ref, outcome_col, baseline_col, group_col)
         IN IF "error" \in DOMAIN o.ret THEN cleaned.heap
            ELSE LET analysis_data == FrameCopy(cleaned.heap, cleaned.ref)
                     rows == analysis_data.heap[analysis_data.ref]
                     residuals == [i \in 1..Len(rows) |->
                                     Residual(rows[i], outcome_col, baseline_col)]
                     written == FrameSetItem(analysis_data.heap, analysis_data.ref,
                                             "baseline_adjusted_score", residuals)
                 IN MaskFrames(written.heap, written.ref, group_col,
                               <<"AI", "Control">>)

\* run_baseline_adjusted_analysis with outcome o: the cleaned frame, or the
\* frames of the fallback without statsmodels
AncovaFrames(heap, ref, env_, o, outcome_col, baseline_col, group_col) ==
    IF ~ImportsStatsmodels(env_)
    THEN FallbackFrames(heap, ref, o, outcome_col, baseline_col, group_col)
    ELSE IF ~HasColumns(heap[ref], {outcome_col, baseline_col, group_col}) THEN heap
    ELSE CleanFrame(heap, ref, outcome_col, baseline_col, group_col).heap

\* config.AGE_BINS and config.AGE_LABELS
AGE_BINS == <<0, 25, 35, 100>>
AGE_LABELS == <<"18-25", "26-35", "36+">>

\* pd.cut(x, bins, labels): the label of the interval (bins[k], bins[k+1]]
\* that holds x, and missing for a missing x and an x in no interval
cut(x, bins, labels) ==
    IF x = NaN THEN NA
    ELSE LET holds == {k \in 1..Len(labels) : bins[k] < x[1] /\ x[1] <= bins[k + 1]}
         IN IF holds = {} THEN NA ELSE labels[CHOOSE k \in holds : TRUE]

\* data_processing.add_demographic_groups: the outcome and the frames left
add_demographic_groups(heap, ref) ==
    LET copied == FrameCopy(heap, ref)
        rows == copied.heap[copied.ref]
    IN IF ~HasColumns(rows, {"age"})
       THEN [exc |-> "KeyError", ret |-> "age", log |-> <<>>, heap |-> copied.heap]
       ELSE LET age_group == [i \in 1..Len(rows) |->
                                 cut(rows[i].age, AGE_BINS, AGE_LABELS)]
                written == FrameSetItem(copied.heap, copied.ref, "age_group", age_group)
            IN [exc |-> "none", ret |-> written.heap[written.ref], log |-> <<>>,
                heap |-> written.heap]

\* analyze_subgroups on a table that may lack the subgroup column: the
\* KeyError of data[subgroup_col] escapes
SubgroupsOf(data_, subgroup_col) ==
    IF ~HasColumns(data_, {subgroup_col})
    THEN {Raised("KeyError", subgroup_col, <<>>)}
    ELSE analyze_subgroups(data_, subgroup_col, "outcome", "group", NotGiven)

(* The core operations called one after another on one table, each on the *)
(* frame passed in, up to MaxCalls calls.  The table has MIN_BASELINE_N     *)
(* complete rows of age 30, five per arm and each arm a subgroup, and up   *)
(* to MaxIncomplete rows more that miss the baseline and are of another    *)
(* age or of none; a second measure, score, is present in two rows of each *)
(* five.  env.table is the table as the caller built it and env.returned   *)
(* the number of calls that have returned.                                 *)

MaxIncomplete == 1

MaxCalls == 2

OtherAges == {Num(20), Num(0), NaN}

FrameTables ==
    {LET rows == Spread(Repeat(Row("AI", "a", TRUE, TRUE), MIN_BASELINE_N \div 2)
                          \o Repeat(Row("Control", "b", TRUE, TRUE),
                                    MIN_BASELINE_N - MIN_BASELINE_N \div 2)
                          \o Repeat(Row("AI", "a", TRUE, FALSE), m))
     IN [i \in 1..Len(rows) |->
            rows[i] @@ [age |-> IF i <= MIN_BASELINE_N THEN Num(30) ELSE other,
                        score |-> IF i % (MIN_BASELINE_N \div 2) \in {1, 2}
                                  THEN Num(i % 3) ELSE NaN]] :
        m \in 0..MaxIncomplete, other \in OtherAges}

InitFrames ==
    /\ \E table \in FrameTables :
          /\ data = <<table>>
          /\ env \in {[statsmodels |-> b, ALPHA |-> ShippedAlpha, ttest_power |-> FALSE,
                        table |-> table, returned |-> 0] : b \in BOOLEAN}
    /\ call = NoCall
    /\ result = NoResult
    /\ log = <<>>

\* a call can be made: none is under way and fewer than MaxCalls returned
CanCall == call = NoCall /\ env.returned < MaxCalls

\* a call on data[1] with outcome o that leaves the frames heap
FrameCall(fn, args, o, heap) ==
    /\ result' = Outcome(o)
    /\ log' = o.log
    /\ data' = heap
    /\ call' = Call(fn, args)
    /\ UNCHANGED env

FramesDescriptiveStats ==
    /\ CanCall
    /\ FrameCall("calculate_descriptive_stats", <<"group", "outcome">>,
                 Returned(calculate_descriptive_stats(data[1], "group", "outcome"), <<>>),
                 GroupFrames(data, 1, "group"))

FramesNormality ==
    /\ CanCall
    /\ \E o \in test_normality(data[1], "group", "score") :
          FrameCall("test_normality", <<"group", "score">>,
                    Returned(o.ret, o.log), GroupFrames(data, 1, "group"))

FramesHomoscedasticity ==
    /\ CanCall
    /\ \E o \in test_homoscedasticity(data[1], "group", "score") :
          FrameCall("test_homoscedasticity", <<"group", "score">>,
                    Returned(o.ret, o.log), GroupFrames(data, 1, "group"))

FramesStatisticalTests ==
    /\ CanCall
    /\ \E o \in run_statistical_tests(data[1], "group", "score") :
          FrameCall("run_statistical_tests", <<"group", "score">>, o,
                    GroupFrames(data, 1, "group"))

FramesSubgroups ==
    /\ CanCall
    /\ \E subgroup_col \in {"subgroup", "age_group"} :
          \E o \in SubgroupsOf(data[1], subgroup_col) :
              FrameCall("analyze_subgroups", <<subgroup_col>>, o,
                        IF ~HasColumns(data[1], {subgroup_col}) THEN data
                        ELSE SubgroupFrames(data, 1,
                                 unique(Column(data[1], subgroup_col)), subgroup_col,
                                 "group", EffectiveMinSize(NotGiven)))

FramesAnalysis ==
    /\ CanCall
    /\ \E o \in run_baseline_adjusted_analysis(data[1], env, "outcome", "baseline",
                                                "group") :
          FrameCall("run_baseline_adjusted_analysis", <<"outcome", "baseline", "group">>,
                    o, AncovaFrames(data, 1, env, o, "outcome", "baseline", "group"))

FramesFallback ==
    /\ CanCall
    /\ \E o \in run_baseline_adjusted_fallback(data[1], "outcome", "baseline", "group") :
          FrameCall("run_baseline_adjusted_fallback", <<"outcome", "baseline", "group">>,
                    o, FallbackFrames(data, 1, o, "outcome", "baseline", "group"))

FramesDemographicGroups ==
    /\ CanCall
    /\ LET o == add_demographic_groups(data, 1)
       IN FrameCall("add_demographic_groups", <<>>, o, o.heap)

FramesPower ==
    /\ CanCall
    /\ \E effect_size \in {Frac(-1, 2), Frac(1, 2)} :
          FrameCall("power_analysis", <<effect_size, MaxPerGroup>>,
                    Returned(power_analysis(effect_size, MaxPerGroup, NotGiven, env),
                             <<>>),
                    data)

\* the caller takes the result and drops the frames the call made; the
\* next call is made on the table passed in
FramesReturn ==
    /\ call # NoCall
    /\ call' = NoCall
    /\ result' = NoResult
    /\ log' = <<>>
    /\ data' = <<data[1]>>
    /\ env' = [env EXCEPT !.returned = @ + 1]

NextFrames ==
    \/ FramesReturn
    \/ FramesDescriptiveStats
    \/ FramesNormality
    \/ FramesHomoscedasticity
    \/ FramesStatisticalTests
    \/ FramesSubgroups
    \/ FramesAnalysis
    \/ FramesFallback
    \/ FramesDemographicGroups
    \/ FramesPower

SpecFrames == InitFrames /\ [][NextFrames]_vars

---------------------------------------------------------------------------
(* The Effect Size Calculator, called with each method on two samples of   *)
(* up to MaxSample values.                                                 *)

SampleValues == 0..2

Samples == UNION {[1..k -> SampleValues] : k \in 0..MaxSample}

Methods == {"cohen_d", "glass_delta", "hedges_g"}

InitEffect ==
    /\ data \in {[group1 |-> a, group2 |-> b] : a \in Samples, b \in Samples}
    /\ env = [statsmodels |-> TRUE, ALPHA |-> ShippedAlpha]
    /\ call = NoCall
    /\ result = NoResult
    /\ log = <<>>

CallCalculateEffectSize ==
    /\ call = NoCall
    /\ \E method \in Methods :
          /\ result' = [exc |-> "none",
                        ret |-> calculate_effect_size(data.group1, data.group2, method)]
          /\ call' = Call("calculate_effect_size", <<method>>)
    /\ log' = <<>>
    /\ UNCHANGED <<data, env>>

NextEffect ==
    \/ Return
    \/ CallCalculateEffectSize

SpecEffect == InitEffect /\ [][NextEffect]_vars

---------------------------------------------------------------------------
(* interpret_effect_size and power_analysis, called on an effect size of   *)
(* up to MaxTwentieths twentieths, NaN or an infinity, a sample size per   *)
(* group of up to MaxPerGroup and an alpha, with and without a primary     *)
(* power routine.                                                          *)

EffectSizes ==
    {Frac(k, 20) : k \in -MaxTwentieths..MaxTwentieths} \cup {FNaN, FInf(1), FInf(-1)}

\* alpha: not given, 0.01, 0.05 and 0.10
PowerAlphas == {NotGiven, Num(1), Num(5), Num(10)}

InitCalculators ==
    /\ data \in {[effect_size |-> d, sample_size_per_group |-> n, alpha |-> a] :
                    d \in EffectSizes, n \in 0..MaxPerGroup, a \in PowerAlphas}
    /\ env \in {[statsmodels |-> TRUE, ALPHA |-> ShippedAlpha, ttest_power |-> b] :
                   b \in BOOLEAN}
    /\ call = NoCall
    /\ result = NoResult
    /\ log = <<>>

CallInterpretEffectSize ==
    /\ call = NoCall
    /\ result' = [exc |-> "none", ret |-> interpret_effect_size(data.effect_size)]
    /\ call' = Call("interpret_effect_size", <<>>)
    /\ log' = <<>>
    /\ UNCHANGED <<data, env>>

CallPowerAnalysis ==
    /\ call = NoCall
    /\ result' = [exc |-> "none",
                  ret |-> power_analysis(data.effect_size, data.sample_size_per_group,
                                         data.alpha, env)]
    /\ call' = Call("power_analysis", <<>>)
    /\ log' = <<>>
    /\ UNCHANGED <<data, env>>

NextCalculators ==
    \/ Return
    \/ CallInterpretEffectSize
    \/ CallPowerAnalysis

SpecCalculators == InitCalculators /\ [][NextCalculators]_vars

---------------------------------------------------------------------------
(* main of main_analysis.py, one action per step: call is main with the    *)
(* step it stands before, data the command line, env the file system, log  *)
(* what was printed and which stage returned or raised, result the value   *)
(* returned or the exception that left main.                               *)

At(step) == Call("main", <<step>>)

\* the exceptions a stage lets escape
StageErrors == {"FileNotFoundError", "ValueError"}

Printed(text) == LibCall("print", text)

StageReturned(stage) == LibCall(stage, "returned")

StageRaised(stage, e) == LibCall(stage, <<"raised", e>>)

\* a mutant of ExitStatus: sys.exit(0)
ExitStatus_Zero(e) == 0

\* sys.exit(1) in both handlers
ExitStatus(e) == 1

\* the handler that takes an exception: FileNotFoundError has its own,
\* every other Exception the general one
Diagnostic(e) ==
    IF e = "FileNotFoundError"
    THEN <<Printed("Error: Data file not found.")>>
    ELSE <<Printed("Error during analysis"), Printed("traceback")>>

\* a call a stage makes: the function and what identifies the call
InnerCall(stage, fn, arg) == [fn |-> fn, arg |-> arg, stage |-> stage]

\* run_statistical_tests as a stage calls it, with the effect size of the
\* bundle it returned
BatteryCall(stage, measure_col, effect_size) ==
    [fn |-> "run_statistical_tests", arg |-> measure_col, stage |-> stage,
     effect_size |-> effect_size]

\* the columns of the participant table load_and_process_data returns
ParticipantColumns ==
    {"participant_id", "group", "age", "pre_self_efficacy", "post_self_efficacy",
     "post_stress", "self_efficacy_change"}

\* the effect sizes the Test Battery returns to a stage
PilotEffects == {Frac(-1, 2), Frac(0, 1), Frac(1, 2), FNaN}

\* abs() of a float
PyAbs(x) == IF x.kind # "nan" /\ x.sign < 0 THEN [x EXCEPT !.sign = -@] ELSE x

\* a mutant of PilotEffectSize: the sign is kept
PilotEffectSize_Signed(effect_size) == effect_size

\* pilot_effect_size = abs(se_results['effect_size'])
PilotEffectSize(effect_size) == PyAbs(effect_size)

\* the per-group size main asks the power for
TARGET_PER_GROUP == 300

\* the calls of run_primary_analysis, in the order of its body
PrimaryCalls(se_effect, stress_effect) ==
    LET stage == "run_primary_analysis"
        stress == "post_stress" \in ParticipantColumns
    IN <<InnerCall(stage, "create_descriptive_table",
                   IF stress THEN <<"self_efficacy_change", "post_stress">>
                   ELSE <<"self_efficacy_change">>),
         BatteryCall(stage, "self_efficacy_change", se_effect)>>
       \o (IF stress THEN <<BatteryCall(stage, "post_stress", stress_effect)>> ELSE <<>>)
       \o <<InnerCall(stage, "plot_group_comparison", "self_efficacy_change")>>
       \o (IF stress THEN <<InnerCall(stage, "plot_group_comparison", "post_stress")>>
           ELSE <<>>)
       \o (IF {"pre_self_efficacy", "post_self_efficacy"} \subseteq ParticipantColumns
           THEN <<InnerCall(stage, "plot_pre_post_comparison", <<>>)>> ELSE <<>>)
       \o <<InnerCall(stage, "plot_effect_size_forest", <<>>)>>

\* the calls of run_secondary_analyses, in the order of its body
SecondaryCalls(se_effect) ==
    LET stage == "run_secondary_analyses"
    IN <<InnerCall(stage, "add_demographic_groups", <<>>),
         InnerCall(stage, "analyze_subgroups", <<"age_group", "self_efficacy_change">>),
         BatteryCall(stage, "self_efficacy_change", se_effect),
         InnerCall(stage, "power_analysis",
                   <<PilotEffectSize(se_effect), TARGET_PER_GROUP>>),
         InnerCall(stage, "plot_power_analysis", <<>>)>>
       \o (IF "age" \in ParticipantColumns
           THEN <<InnerCall(stage, "plot_demographics_distribution", "age")>>
           ELSE <<>>)

InitPipeline ==
    /\ data \in {[skip_secondary |-> a, skip_export |-> b] : a, b \in BOOLEAN}
    /\ env \in {[statsmodels |-> TRUE, ALPHA |-> ShippedAlpha,
                    data_file |-> f, output_dir |-> o] :
                   f \in BOOLEAN, o \in {"exists", "missing", "no_parent"}}
    /\ call = At("mkdir")
    /\ result = NoResult
    /\ log = <<>>

\* a stage inside the try block: it returns (when it can), or an exception
\* escapes it to the handlers
Stage(step, stage, next, returns, errors) ==
    /\ call = At(step)
    /\ \/ /\ returns
          /\ log' = Append(log, StageReturned(stage))
          /\ call' = At(next)
       \/ \E e \in errors :
             /\ log' = Append(log, StageRaised(stage, e))
             /\ call' = Call("main", <<"except", e>>)
    /\ UNCHANGED <<data, env, result>>

\* a stage with the calls it makes: it makes them all and returns, or an
\* exception escapes it when it has made the first n of them
StageCalling(step, stage, next, calls, errors) ==
    /\ call = At(step)
    /\ \/ /\ log' = log \o calls \o <<StageReturned(stage)>>
          /\ call' = At(next)
       \/ \E e \in errors, n \in 0..Len(calls) :
             /\ log' = log \o SubSeq(calls, 1, n) \o <<StageRaised(stage, e)>>
             /\ call' = Call("main", <<"except", e>>)
    /\ UNCHANGED <<data, env, result>>

\* output_dir.mkdir(exist_ok=True) and print_header(), before the try block
MainMkdir ==
    /\ call = At("mkdir")
    /\ IF env.output_dir = "no_parent"
       THEN /\ result' = [exc |-> "FileNotFoundError", ret |-> <<>>]
            /\ call' = At("escaped")
            /\ UNCHANGED <<log, env>>
       ELSE /\ env' = [env EXCEPT !.output_dir = "exists"]
            /\ log' = Append(log, Printed("header"))
            /\ call' = At("load")
            /\ UNCHANGED result
    /\ UNCHANGED data

\* load_and_process_data(args.data): read_csv raises FileNotFoundError for a
\* missing file
MainLoad ==
    IF env.data_file
    THEN Stage("load", "load_and_process_data", "summary", TRUE, {"ValueError"})
    ELSE Stage("load", "load_and_process_data", "summary", FALSE, {"FileNotFoundError"})

MainSummary == Stage("summary", "get_data_summary", "primary", TRUE, StageErrors)

MainPrimary ==
    \E se_effect \in PilotEffects, stress_effect \in PilotEffects :
        StageCalling("primary", "run_primary_analysis", "secondary",
                     PrimaryCalls(se_effect, stress_effect), StageErrors)

MainSecondary ==
    IF data.skip_secondary
    THEN /\ call = At("secondary")
         /\ call' = At("export")
         /\ UNCHANGED <<data, env, result, log>>
    ELSE \E se_effect \in PilotEffects :
            StageCalling("secondary", "run_secondary_analyses", "export",
                         SecondaryCalls(se_effect), StageErrors)

MainExport ==
    IF data.skip_export
    THEN /\ call = At("export")
         /\ call' = At("complete")
         /\ UNCHANGED <<data, env, result, log>>
    ELSE Stage("export", "run_export_pipeline", "complete", TRUE, StageErrors)

\* the final summary is printed and the results are returned
MainComplete ==
    /\ call = At("complete")
    /\ log' = Append(log, Printed("ANALYSIS COMPLETE!"))
    /\ result' = [exc |-> "none",
                  ret |-> [primary_results |-> "primary_results",
                           secondary_results |->
                               IF data.skip_secondary THEN "{}" ELSE "secondary_results",
                           exported_files |->
                               IF data.skip_export THEN "{}" ELSE "exported_files",
                           data |-> "data"]]
    /\ call' = At("returned")
    /\ UNCHANGED <<data, env>>

\* except FileNotFoundError / except Exception: print and sys.exit(1)
MainExcept ==
    /\ call.fn = "main"
    /\ call.args[1] = "except"
    /\ LET e == call.args[2]
       IN /\ log' = log \o Diagnostic(e)
          /\ result' = [exc |-> "SystemExit", ret |-> Num(ExitStatus(e))]
    /\ call' = At("exited")
    /\ UNCHANGED <<data, env>>

NextPipeline ==
    \/ MainMkdir
    \/ MainLoad
    \/ MainSummary
    \/ MainPrimary
    \/ MainSecondary
    \/ MainExport
    \/ MainComplete
    \/ MainExcept

\* main is sequential code: a step that can be taken is taken
SpecPipeline == InitPipeline /\ [][NextPipeline]_vars /\ WF_vars(NextPipeline)

---------------------------------------------------------------------------
(* Claims about the Test Battery and the Assumption Checks (SpecBattery).  *)

\* C1: run_statistical_tests raises the validation error (ValueError), having
\* run no test and returning no bundle, exactly when the group column does
\* not hold exactly two distinct values (zero, one, three or more; a missing
\* label is one of the values of the column); with exactly two it returns a
\* bundle.
C1_TwoGroupValidation ==
    BatteryCalled =>
        /\ result.exc = "ValueError" <=> Cardinality(DistinctValues("group")) # 2
        /\ result.exc = "ValueError" =>
              /\ log = <<>>
              /\ result.ret[1] = "Expected 2 groups, got "
              /\ result.ret[2] = Cardinality(DistinctValues("group"))
        /\ result.exc # "ValueError" => result.exc = "none" /\ IsBundle(result.ret)

\* a three-level group column was rejected
C1_Witness ==
    /\ BatteryCalled
    /\ result.exc = "ValueError"
    /\ {"AI", "Control", "Other"} \subseteq DistinctValues("group")

\* C2: in every bundle, recommended_test is "t_test" iff every group whose
\* is_normal is not None has is_normal True and equal_variances is True; in
\* every other case (None equal_variances included) it is "mann_whitney";
\* groups with is_normal None take no part in the vote.
C2_Recommendation ==
    BatteryReturned =>
        LET nm == result.ret.normality
            determined == {g \in DOMAIN nm : nm[g].is_normal # None}
        IN /\ result.ret.recommended_test \in {"t_test", "mann_whitney"}
           /\ result.ret.recommended_test = "t_test" <=>
                 /\ \A g \in determined : nm[g].is_normal = "True"
                 /\ result.ret.homoscedasticity.equal_variances = "True"

\* the t-test was recommended although one group's normality is undetermined
C2_Witness ==
    /\ BatteryReturned
    /\ result.ret.recommended_test = "t_test"
    /\ \E g \in DOMAIN result.ret.normality :
          result.ret.normality[g].is_normal = None
    /\ \E g \in DOMAIN result.ret.normality :
          result.ret.normality[g].is_normal = "True"

\* C9: test_normality returns one result per distinct group value; a group
\* with at least 3 outcomes present gets is_normal = (p_value > alpha) from
\* one Shapiro-Wilk test of its sample; a group with fewer (0, 1 or 2) gets
\* is_normal None, neither True nor False, no test is run for it and nothing
\* is raised.
C9_Normality ==
    call.fn = "test_normality" =>
        /\ result.exc = "none"
        /\ DOMAIN result.ret = DistinctValues("group")
        /\ \A g \in DistinctValues("group") :
              IF Cardinality(Observed(g)) >= 3
              THEN /\ result.ret[g].p_value \in {Num(p) : p \in PVals}
                   /\ result.ret[g].is_normal =
                          PyBool(result.ret[g].p_value[1] > ALPHA)
                   /\ \E k \in LogCalls("shapiro") :
                          Len(log[k].arg) = Cardinality(Observed(g))
              ELSE /\ result.ret[g].is_normal = None
                   /\ result.ret[g].p_value = NaN
                   /\ result.ret[g].statistic = NaN
        /\ Cardinality(LogCalls("shapiro")) =
              Cardinality({g \in DistinctValues("group") : Cardinality(Observed(g)) >= 3})
        /\ LogCalls("shapiro") = 1..Len(log)

\* one group was tested with a p-value on the threshold, another was too small
C9_Witness ==
    /\ call.fn = "test_normality"
    /\ \E g \in DOMAIN result.ret :
          result.ret[g].p_value = Num(ALPHA) /\ result.ret[g].is_normal = "False"
    /\ \E g \in DOMAIN result.ret :
          Cardinality(Observed(g)) = 2 /\ result.ret[g].is_normal = None

\* C10: test_homoscedasticity runs Levene's test only when there are at
\* least two groups and every group has an outcome present, and then
\* equal_variances = (p_value > alpha); otherwise equal_variances is None,
\* no test is run and nothing is raised.
C10_Homoscedasticity ==
    call.fn = "test_homoscedasticity" =>
        /\ result.exc = "none"
        /\ IF /\ Cardinality(DistinctValues("group")) >= 2
              /\ \A g \in DistinctValues("group") : Observed(g) # {}
           THEN /\ Len(log) = 1 /\ log[1].fn = "levene"
                /\ Len(log[1].arg) = Cardinality(DistinctValues("group"))
                /\ result.ret.equal_variances = PyBool(Gt(result.ret.p_value, ALPHA))
           ELSE /\ log = <<>>
                /\ result.ret.equal_variances = None
                /\ result.ret.p_value = NaN

\* Levene's test was refused because one of two groups has no outcome present
C10_Witness ==
    /\ call.fn = "test_homoscedasticity"
    /\ Cardinality(DistinctValues("group")) = 2
    /\ \E g \in DistinctValues("group") : g # NA /\ RowsAt("group", g) # {} /\ Observed(g) = {}
    /\ result.ret.equal_variances = None

DescriptiveFields == {"n", "mean", "std", "median", "q25", "q75", "min", "max"}

\* C11: calculate_descriptive_stats raises nothing and returns one summary
\* of the eight fields per distinct value of the group column (the missing
\* marker, when some label is missing, is a value that no row equals); n is
\* the number of the group's rows whose outcome is present, so a missing
\* outcome is dropped and not counted as a zero; a group without a present
\* outcome has n = 0 and NaN for mean, std, median, q25, q75, min and max,
\* and a group with a present outcome has a mean, median, quartiles, min and
\* max that are numbers, the min being its least present outcome.
C11_Descriptives ==
    call.fn = "calculate_descriptive_stats" =>
        /\ result.exc = "none"
        /\ DOMAIN result.ret = DistinctValues("group")
        /\ \A g \in DistinctValues("group") :
              /\ DOMAIN result.ret[g] = DescriptiveFields
              /\ result.ret[g].n = Cardinality(Observed(g))
              /\ IF Observed(g) = {}
                 THEN \A f \in DescriptiveFields \ {"n"} : result.ret[g][f] = FNaN
                 ELSE /\ \A f \in DescriptiveFields \ {"n", "std"} :
                            result.ret[g][f].kind = "num"
                      /\ \E i \in Observed(g) :
                            /\ result.ret[g].min = Frac(data[i].outcome[1], 1)
                            /\ \A j \in Observed(g) :
                                  data[i].outcome[1] <= data[j].outcome[1]

\* C11 witness: one group has rows but no outcome, another has outcomes
\* present and missing
C11_Witness ==
    /\ call.fn = "calculate_descriptive_stats"
    /\ \E g \in DistinctValues("group") \ {NA} :
          /\ RowsAt("group", g) # {}
          /\ result.ret[g].n = 0
          /\ result.ret[g].median = FNaN
    /\ \E g \in DistinctValues("group") :
          /\ result.ret[g].n >= 2
          /\ result.ret[g].n < Cardinality(RowsAt("group", g))

\* the outcomes present in a group
OutcomesOf(g) == {data[i].outcome[1] : i \in Observed(g)}

\* C14: run_statistical_tests on a table with exactly two distinct group
\* values raises nothing and returns a bundle whose effect_size is the value
\* of Cohen's d, also when that is undefined: it is NaN when some group has
\* fewer than two outcomes (so whenever n1 + n2 <= 2), NaN or an infinity
\* when the outcomes of neither group vary, and a finite number otherwise;
\* Hedges' g is NaN or an infinity whenever Cohen's d is.
C14_UndefinedEffectSize ==
    (BatteryCalled /\ Cardinality(DistinctValues("group")) = 2) =>
        /\ BatteryReturned
        /\ IsBundle(result.ret)
        /\ LET small == \E g \in DistinctValues("group") : Cardinality(Observed(g)) <= 1
               flat == \A g \in DistinctValues("group") : Cardinality(OutcomesOf(g)) <= 1
           IN /\ small => result.ret.effect_size = FNaN
              /\ (flat /\ ~small) => result.ret.effect_size.kind \in {"nan", "inf"}
              /\ (~flat /\ ~small) => result.ret.effect_size.kind \in {"num", "root"}
              /\ result.ret.effect_size.kind \in {"nan", "inf"}
                    => result.ret.hedges_g.kind \in {"nan", "inf"}

\* C14 witness: each group has one outcome (n1 + n2 = 2) and the bundle holds
\* NaN as effect size
C14_Witness ==
    /\ BatteryReturned
    /\ IsBundle(result.ret)
    /\ \A g \in DistinctValues("group") : Cardinality(Observed(g)) = 1
    /\ result.ret.effect_size = FNaN

\* the keys of the record of a significance test
TestKeys == {"statistic", "p_value", "significant"}

\* C29: in every bundle returned by run_statistical_tests, recommended_test
\* is "t_test" or "mann_whitney" and recommended_p is the p-value stored
\* under the test it names; the records of both tests are in the bundle
\* whichever one is recommended.
C29_RecommendedP ==
    BatteryReturned =>
        LET b == result.ret
        IN /\ b.recommended_test \in {"t_test", "mann_whitney"}
           /\ DOMAIN b.t_test = TestKeys
           /\ DOMAIN b.mann_whitney = TestKeys
           /\ b.recommended_test = "t_test" => b.recommended_p = b.t_test.p_value
           /\ b.recommended_test = "mann_whitney" =>
                 b.recommended_p = b.mann_whitney.p_value

\* C29 witness: the Mann-Whitney test is recommended, the two tests differ
\* in their p-values, and recommended_p is that of the Mann-Whitney test
C29_Witness ==
    /\ BatteryReturned
    /\ result.ret.recommended_test = "mann_whitney"
    /\ result.ret.t_test.p_value = Num(ALPHA - 1)
    /\ result.ret.mann_whitney.p_value = Num(ALPHA + 1)
    /\ result.ret.recommended_p = Num(ALPHA + 1)

---------------------------------------------------------------------------
(* Claims about the Subgroup Runner (SpecSubgroups).                       *)

SubgroupsCalled == call.fn = "analyze_subgroups"

\* the minimum size in force: the one given, or the process-wide one
MinInForce == IF call.args[1] = <<>> THEN MIN_SUBGROUP_SIZE ELSE call.args[1][1]

\* the non-missing values of the partition column
Levels == DistinctValues("subgroup") \ {NA}

LevelSize(level) == Cardinality(RowsAt("subgroup", level))

IsValidationRecord(r) ==
    /\ IsErrorRecord(r)
    /\ r.error[1] = "Expected 2 groups, got "

IsInsufficiencyRecord(r, n, min) ==
    /\ IsErrorRecord(r)
    /\ r.error = <<"Insufficient sample size (n=", n, ", min=", min, ")">>

\* what a level's own rows call for, whatever the other levels hold
EntryFits(level, r) ==
    IF LevelSize(level) < MinInForce
    THEN IsInsufficiencyRecord(r, LevelSize(level), MinInForce)
    ELSE IF Cardinality(ArmsAt(level)) # 2 THEN IsValidationRecord(r)
    ELSE IsBundle(r)

\* C3: for a level with at least min_size rows whose group column does not
\* hold exactly two distinct values, the battery's validation error is caught
\* and an error record is stored under the level's key; the validation error
\* never leaves analyze_subgroups.
C3_ValidationCaught ==
    SubgroupsCalled =>
        /\ result.exc = "none"
        /\ \A level \in Levels :
              (LevelSize(level) >= MinInForce /\ Cardinality(ArmsAt(level)) # 2)
                  => /\ level \in DOMAIN result.ret
                     /\ IsValidationRecord(result.ret[level])
                     /\ result.ret[level].error[2] = Cardinality(ArmsAt(level))

\* a level of one arm only was large enough and got the validation record
C3_Witness ==
    /\ SubgroupsCalled
    /\ \E level \in Levels :
          /\ LevelSize(level) >= MinInForce
          /\ Cardinality(ArmsAt(level)) = 1
          /\ IsValidationRecord(result.ret[level])

\* C4: the mapping returned has exactly one entry for every distinct
\* non-missing value of the partition column and none for the missing value;
\* each entry is either a full bundle or an error record; and every level
\* gets the entry its own rows call for, whether or not another level,
\* earlier or later, is too small or fails validation.
C4_EveryLevelStored ==
    SubgroupsCalled =>
        /\ result.exc = "none"
        /\ DOMAIN result.ret = Levels
        /\ \A level \in Levels :
              /\ IsBundle(result.ret[level]) # IsErrorRecord(result.ret[level])
              /\ EntryFits(level, result.ret[level])

\* a level that fails validation is followed by a level that got its bundle
C4_Witness ==
    /\ SubgroupsCalled
    /\ \E bad \in Levels, good \in Levels :
          /\ \A i \in RowsAt("subgroup", bad), j \in RowsAt("subgroup", good) : i < j
          /\ IsValidationRecord(result.ret[bad])
          /\ IsBundle(result.ret[good])

\* C5 as stated: a level of exactly min_size - 1 rows gets an insufficiency
\* record with these two counts, and a level of exactly min_size rows gets a
\* full bundle; min_size is 10 when not given.
C5_AsStated ==
    SubgroupsCalled =>
        /\ result.exc = "none"
        /\ \A level \in Levels :
              /\ LevelSize(level) = MinInForce - 1 =>
                    IsInsufficiencyRecord(result.ret[level], MinInForce - 1, MinInForce)
              /\ LevelSize(level) = MinInForce => IsBundle(result.ret[level])

\* C5 (amended): a level of exactly min_size - 1 rows gets an insufficiency
\* record with observed count min_size - 1 and required minimum min_size; a
\* level of exactly min_size rows gets a full bundle when its rows hold
\* exactly two distinct group values, and the validation error record
\* otherwise; min_size is 10 when not given.
C5_MinSizeBoundary ==
    SubgroupsCalled =>
        /\ result.exc = "none"
        /\ \A level \in Levels :
              /\ LevelSize(level) = MinInForce - 1 =>
                    IsInsufficiencyRecord(result.ret[level], MinInForce - 1, MinInForce)
              /\ LevelSize(level) = MinInForce =>
                    IF Cardinality(ArmsAt(level)) = 2
                    THEN IsBundle(result.ret[level])
                    ELSE IsValidationRecord(result.ret[level])

\* with no min_size given, a level of exactly 10 rows got a bundle
C5_Witness ==
    /\ SubgroupsCalled
    /\ call.args[1] = NotGiven
    /\ \E level \in Levels :
          LevelSize(level) = MIN_SUBGROUP_SIZE /\ IsBundle(result.ret[level])

\* the calls of the battery among the calls made, and the level of each
BatteryCalls == LogCalls("run_statistical_tests")

CallsFor(level) ==
    {k \in BatteryCalls :
        /\ Len(log[k].arg) = LevelSize(level)
        /\ \A i \in 1..Len(log[k].arg) : log[k].arg[i].subgroup = level}

\* C6: analyze_subgroups never calls the battery on a level of fewer than
\* min_size rows, and calls it exactly once, on the level's rows, for each
\* non-missing level of at least min_size rows.
C6_BatteryCalls ==
    SubgroupsCalled =>
        /\ \A level \in Levels :
              Cardinality(CallsFor(level)) =
                  IF LevelSize(level) >= MinInForce THEN 1 ELSE 0
        /\ BatteryCalls = UNION {CallsFor(level) : level \in Levels}

\* the battery was called for one level and not for another, too small
C6_Witness ==
    /\ SubgroupsCalled
    /\ \E small \in Levels, large \in Levels :
          /\ LevelSize(small) = MinInForce - 1
          /\ LevelSize(large) = MinInForce
          /\ CallsFor(small) = {}
          /\ Cardinality(CallsFor(large)) = 1

---------------------------------------------------------------------------
(* Claims about the Baseline-Adjusted Comparator (SpecBaseline).           *)

ComparatorCalled ==
    call.fn \in {"run_baseline_adjusted_analysis", "run_baseline_adjusted_fallback"}

\* the rows with an outcome, a baseline and a group
Complete ==
    {i \in 1..Len(data) :
        data[i].outcome # NaN /\ data[i].baseline # NaN /\ data[i].group # NA}

FitCalls == LogCalls("ols") \cup LogCalls("linregress")

IsInsufficientDataRecord(r) ==
    r = [error |-> <<"Insufficient data for baseline-adjusted analysis">>]

\* the strategy that ran: the fallback when called or when the import fails
FallbackRan == call.fn = "run_baseline_adjusted_fallback" \/ ~env.statsmodels

\* C7: a call of either strategy on a table with fewer than 10 complete rows
\* (rows with an outcome, a baseline and a group) returns the insufficient-
\* data record without any fit; with 10 or more complete rows exactly one
\* fit is attempted, the one of the strategy that ran, and the record is
\* not the insufficient-data record.
C7_MinimumTotalSample ==
    ComparatorCalled =>
        /\ result.exc = "none"
        /\ IF Cardinality(Complete) < 10
           THEN IsInsufficientDataRecord(result.ret) /\ FitCalls = {}
           ELSE /\ ~IsInsufficientDataRecord(result.ret)
                /\ Cardinality(FitCalls) = 1
                /\ (LogCalls("linregress") # {}) = FallbackRan

\* C7 witness: a table of ten or more rows of which nine are complete was
\* refused without a fit
C7_Witness ==
    /\ ComparatorCalled
    /\ Len(data) >= 10
    /\ Cardinality(Complete) = 9
    /\ IsInsufficientDataRecord(result.ret)
    /\ FitCalls = {}

ComparatorKeys ==
    {"raw_effect_size", "baseline_difference", "adjusted_effect_size",
     "ai_adjusted_mean", "control_adjusted_mean", "significant"}

\* the p-value answered by the test of the strategy that ran
OwnTestAnswer ==
    LET test == IF FallbackRan THEN "ttest_ind" ELSE "anova_lm"
    IN log[CHOOSE k \in LogCalls(test) : TRUE].p_value

\* C8: every result of either strategy that is not an error record holds
\* the raw effect size, the raw baseline difference, the adjusted effect
\* size, both adjusted means and a significance flag; the flag is True
\* exactly when the p-value answered by the strategy's own test (the group
\* term of the ANCOVA table, the t-test on the residuals of the fallback)
\* is below 0.05, and that p-value is the one the record reports.
C8_ResultContents ==
    (ComparatorCalled /\ "error" \notin DOMAIN result.ret) =>
        /\ ComparatorKeys \subseteq DOMAIN result.ret
        /\ ("method" \in DOMAIN result.ret) = FallbackRan
        /\ Cardinality(LogCalls(IF FallbackRan THEN "ttest_ind" ELSE "anova_lm")) = 1
        /\ result.ret.significant = PyBool(OwnTestAnswer # NaN /\ OwnTestAnswer[1] < 5)
        /\ OwnTestAnswer = IF FallbackRan THEN result.ret.adjusted_p_value
                           ELSE result.ret.ancova_p_value

\* C8 witness: the fallback reported a significant difference of the
\* residuals under a regression that was not significant
C8_Witness ==
    /\ ComparatorCalled
    /\ FallbackRan
    /\ "error" \notin DOMAIN result.ret
    /\ result.ret.significant = "True"
    /\ \E k \in LogCalls("linregress") : Gt(log[k].p_value, 5)

---------------------------------------------------------------------------
(* Claims about the Comparator called with the columns the caller names    *)
(* (SpecCore).                                                             *)

\* a call of either strategy that names its columns
ComparatorCalledWith == ComparatorCalled /\ call.args # <<>>

\* a column the call names is not in the table
ColumnMissing ==
    \E i \in 1..Len(data) : ~({call.args[1], call.args[2], call.args[3]} \subseteq DOMAIN data[i])

IsFullResult(r) == ComparatorKeys \subseteq DOMAIN r /\ "error" \notin DOMAIN r

\* the fit was called and its test gave no answer
FitFailed ==
    FitCalls # {} /\ LogCalls("anova_lm") = {} /\ LogCalls("ttest_ind") = {}

\* the ANCOVA strategy returned a full result
AncovaReturned ==
    /\ ComparatorCalledWith
    /\ call.fn = "run_baseline_adjusted_analysis"
    /\ env.statsmodels
    /\ IsFullResult(result.ret)

\* the labels of the group column the call names
GroupLabels == {data[i][call.args[3]] : i \in 1..Len(data)} \ {NA}

\* a sorts before b
SortsBefore(a, b) ==
    \E i, j \in 1..Len(LabelOrder) : i < j /\ LabelOrder[i] = a /\ LabelOrder[j] = b

\* the fitted model has a coefficient named 'C(group)[T.Control]': the
\* column is 'group' and 'Control' is a level of it other than the first
ControlContrasted ==
    /\ call.args[3] = "group"
    /\ "Control" \in GroupLabels
    /\ \E l \in GroupLabels : SortsBefore(l, "Control")

\* the flag follows the group term of the column the call names
FlagOfNamedColumn ==
    /\ result.ret.significant = PyBool(Lt(result.ret.ancova_p_value, 5))
    /\ \E k \in LogCalls("anova_lm") :
          log[k].arg = call.args[3] /\ log[k].p_value = result.ret.ancova_p_value

\* C27 as stated: whenever the fitted model has no coefficient named
\* 'C(group)[T.Control]', both adjusted means are equal and
\* adjusted_mean_difference and adjusted_effect_size are 0, the flag still
\* following the group term of the column the caller named.
C27_AsStated ==
    (AncovaReturned /\ ~ControlContrasted) =>
        /\ result.ret.ai_adjusted_mean = result.ret.control_adjusted_mean
        /\ result.ret.adjusted_mean_difference = Frac(0, 1)
        /\ result.ret.adjusted_effect_size = Frac(0, 1)
        /\ FlagOfNamedColumn

\* C27: in a full result of the ANCOVA strategy whose fitted model has no
\* coefficient named 'C(group)[T.Control]' (the group column is not 'group',
\* or 'Control' is absent from it or is its reference level), both adjusted
\* means are equal, adjusted_mean_difference is 0 and adjusted_effect_size
\* is 0 when the residual standard error of the fit is positive and NaN when
\* it is 0; the significance flag is p < 0.05 for the group term of the
\* column the caller named, in every full result.
C27_HardcodedContrast ==
    AncovaReturned =>
        /\ FlagOfNamedColumn
        /\ ~ControlContrasted =>
              /\ result.ret.ai_adjusted_mean = result.ret.control_adjusted_mean
              /\ result.ret.adjusted_mean_difference = Frac(0, 1)
              /\ result.ret.adjusted_effect_size =
                    IF result.ret.residual_std_error = Frac(0, 1)
                    THEN FNaN ELSE Frac(0, 1)

\* C27 witness: the arms 'AI' and 'Control' are compared on the column
\* 'condition'; the group term is significant and the adjusted difference
\* and effect size are 0
C27_Witness ==
    /\ AncovaReturned
    /\ call.args[3] = "condition"
    /\ GroupLabels = {"AI", "Control"}
    /\ result.ret.significant = "True"
    /\ result.ret.adjusted_mean_difference = Frac(0, 1)
    /\ result.ret.adjusted_effect_size = Frac(0, 1)

\* C28: no call of run_baseline_adjusted_analysis (nor of the fallback)
\* raises; it returns a full result or an error record; a missing column or
\* a failed fit gives an error record; when statsmodels does not import,
\* run_baseline_adjusted_fallback is called once on the same arguments and
\* its record is what is returned, and when it imports the fallback is not
\* called.
C28_NeverRaises ==
    ComparatorCalledWith =>
        /\ result.exc = "none"
        /\ IsErrorRecord(result.ret) \/ IsFullResult(result.ret)
        /\ (ColumnMissing \/ FitFailed) => IsErrorRecord(result.ret)
        /\ call.fn = "run_baseline_adjusted_analysis" =>
              IF env.statsmodels
              THEN LogCalls("run_baseline_adjusted_fallback") = {}
                     /\ LogCalls("linregress") = {}
              ELSE /\ LogCalls("run_baseline_adjusted_fallback") = {1}
                   /\ log[1].arg = call.args
                   /\ \E o \in run_baseline_adjusted_fallback(
                                    data, call.args[1], call.args[2], call.args[3]) :
                         result = Outcome(o) /\ Tail(log) = o.log

\* C28 witness: statsmodels does not import and the outcome column is not
\* in the table; the record returned is the error record of the fallback
C28_Witness ==
    /\ call.fn = "run_baseline_adjusted_analysis"
    /\ call.args # <<>>
    /\ ~env.statsmodels
    /\ ColumnMissing
    /\ result.exc = "none"
    /\ result.ret = [error |-> <<"Error in fallback baseline-adjusted analysis: ",
                                 "KeyError">>]

\* the flags of a bundle follow the configured alpha
BundleFlagsFollow(b, alpha) ==
    /\ b.t_test.significant = PyBool(Lt(b.t_test.p_value, alpha))
    /\ b.mann_whitney.significant = PyBool(Lt(b.mann_whitney.p_value, alpha))
    /\ \A g \in DOMAIN b.normality :
          b.normality[g].is_normal # None =>
              b.normality[g].is_normal = PyBool(Gt(b.normality[g].p_value, alpha))
    /\ b.homoscedasticity.equal_variances # None =>
          b.homoscedasticity.equal_variances
              = PyBool(Gt(b.homoscedasticity.p_value, alpha))

\* the flags of the Test Battery and of the Assumption Checks follow the
\* configured alpha
BatteryFlagsFollowAlpha ==
    /\ BatteryReturned => BundleFlagsFollow(result.ret, env.ALPHA)
    /\ call.fn = "test_normality" =>
          \A g \in DOMAIN result.ret :
              result.ret[g].is_normal # None =>
                  result.ret[g].is_normal = PyBool(Gt(result.ret[g].p_value, env.ALPHA))
    /\ call.fn = "test_homoscedasticity" =>
          (result.ret.equal_variances # None =>
              result.ret.equal_variances = PyBool(Gt(result.ret.p_value, env.ALPHA)))

\* the p-value a full result of the Comparator reports for its own test
OwnPValue(r) ==
    IF "method" \in DOMAIN r THEN r.adjusted_p_value ELSE r.ancova_p_value

\* C23 as stated: for every value config.ALPHA is set to, the t-test and
\* Mann-Whitney flags are p < ALPHA, the normality and homoscedasticity
\* flags are p > ALPHA, and the significant flag of the Baseline-Adjusted
\* Comparator is (its own p-value) < ALPHA, each flag from its own p-value
\* alone.
C23_AsStated ==
    /\ BatteryFlagsFollowAlpha
    /\ (ComparatorCalledWith /\ IsFullResult(result.ret)) =>
          result.ret.significant = PyBool(Lt(OwnPValue(result.ret), env.ALPHA))

\* the groups of the named column in the order of their first rows
FirstEncountered == unique(Column(data, call.args[3]))

\* C24 as stated: on a table the Test Battery accepts, the raw_effect_size
\* of a full result of the Comparator (either strategy) is the effect_size
\* the Test Battery returns for the same table, group column and outcome:
\* the first-encountered group minus the other, whichever label is first.
C24_AsStated ==
    (ComparatorCalledWith /\ IsFullResult(result.ret)) =>
        /\ Len(FirstEncountered) = 2 =>
              result.ret.raw_effect_size =
                  calculate_effect_size(
                      GroupData(data, call.args[3], FirstEncountered[1], call.args[1]),
                      GroupData(data, call.args[3], FirstEncountered[2], call.args[1]),
                      "cohen_d")
        /\ \A o \in run_statistical_tests(data, call.args[3], call.args[1]) :
              o.exc = "none" => o.ret.effect_size = result.ret.raw_effect_size

---------------------------------------------------------------------------
(* Claims about the Effect Size Calculator (SpecEffect).                   *)

EffectCalled(method) == call = Call("calculate_effect_size", <<method>>)

\* a sample with two values that differ
Varies(s) == \E i, j \in 1..Len(s) : s[i] # s[j]

\* the pooled standard deviation is defined (both samples have a variance)
\* and is not zero
PooledDefined ==
    /\ Len(data.group1) >= 2
    /\ Len(data.group2) >= 2
    /\ Varies(data.group1) \/ Varies(data.group2)

EqualMeans ==
    Sum(data.group1) * Len(data.group2) = Sum(data.group2) * Len(data.group1)

\* -v for a float that is not NaN
Negated(v) == IF v.kind = "nan" THEN v ELSE [v EXCEPT !.sign = -@]

\* C12: Cohen's d of two samples with a defined non-zero pooled standard
\* deviation is a finite number, is 0 exactly when the means are equal, and
\* is the negation of Cohen's d of the two samples swapped.
C12_CohenSymmetry ==
    (EffectCalled("cohen_d") /\ PooledDefined) =>
        /\ result.exc = "none"
        /\ result.ret.kind \in {"num", "root"}
        /\ EqualMeans <=> result.ret = Frac(0, 1)
        /\ result.ret = Negated(calculate_effect_size(data.group2, data.group1, "cohen_d"))

\* C12 witness: d is negative, so d of the swapped samples is positive
C12_Witness ==
    /\ EffectCalled("cohen_d")
    /\ PooledDefined
    /\ result.ret.sign = -1
    /\ calculate_effect_size(data.group2, data.group1, "cohen_d").sign = 1

\* the square of a finite float as a pair <<numerator, denominator>>
Square(v) == IF v.kind = "root" THEN <<v.num, v.den>>
             ELSE <<v.num * v.num, v.den * v.den>>

\* |g| <= |d| as floats compare: False when either is NaN
MagnitudeLeq(g, d) ==
    CASE g.kind = "nan" \/ d.kind = "nan" -> FALSE
      [] d.kind = "inf" -> TRUE
      [] g.kind = "inf" -> FALSE
      [] OTHER -> Square(g)[1] * Square(d)[2] <= Square(d)[1] * Square(g)[2]

SampleTotal == Len(data.group1) + Len(data.group2)

\* 1 - 3 / (4 * N - 9) as a fraction
CorrectionFactor(N) == Frac(4 * N - 12, 4 * N - 9)

\* C13 as stated: for all sizes n1, n2 of non-empty samples (so n1 + n2 >= 2)
\* the magnitude of Hedges' g is at most the magnitude of Cohen's d of the
\* same samples, and the correction factor 1 - 3 / (4 * (n1 + n2) - 9) lies
\* in (0, 1].
C13_AsStated ==
    (EffectCalled("hedges_g") /\ Len(data.group1) >= 1 /\ Len(data.group2) >= 1) =>
        /\ MagnitudeLeq(result.ret,
                        calculate_effect_size(data.group1, data.group2, "cohen_d"))
        /\ CorrectionFactor(SampleTotal).sign = 1
        /\ CorrectionFactor(SampleTotal).num <= CorrectionFactor(SampleTotal).den

\* C13 (amended): Hedges' g is NaN exactly when Cohen's d of the same
\* samples is; whenever Cohen's d is defined (which needs two values in each
\* sample, so n1 + n2 >= 4) the magnitude of Hedges' g is at most that of
\* Cohen's d and the correction factor lies strictly between 0 and 1; the
\* factor is 4 for n1 + n2 = 2 and 0 for n1 + n2 = 3, where Cohen's d is NaN.
C13_HedgesMagnitude ==
    EffectCalled("hedges_g") =>
        LET d == calculate_effect_size(data.group1, data.group2, "cohen_d")
            c == CorrectionFactor(SampleTotal)
        IN /\ result.exc = "none"
           /\ (result.ret.kind = "nan") = (d.kind = "nan")
           /\ d.kind # "nan" =>
                 /\ SampleTotal >= 4
                 /\ MagnitudeLeq(result.ret, d)
                 /\ c.sign = 1 /\ c.num < c.den
           /\ SampleTotal = 2 => c = Frac(4, 1) /\ d.kind = "nan"
           /\ SampleTotal = 3 => c = Frac(0, 1) /\ d.kind = "nan"

\* C13 witness: a finite non-zero g, smaller in magnitude than d
C13_Witness ==
    /\ EffectCalled("hedges_g")
    /\ result.ret.kind = "root"
    /\ ~MagnitudeLeq(calculate_effect_size(data.group1, data.group2, "cohen_d"),
                     result.ret)

---------------------------------------------------------------------------
(* Claims about interpret_effect_size and power_analysis (SpecCalculators).*)

\* the label of a magnitude of num / den, by the thresholds 1/5, 1/2 and 4/5
LabelOf(num, den) ==
    IF 5 * num < den THEN "Negligible"
    ELSE IF 2 * num < den THEN "Small"
    ELSE IF 5 * num < 4 * den THEN "Medium"
    ELSE "Large"

\* C15: interpret_effect_size returns exactly one of the four labels, fixed
\* by |d| alone: Negligible for |d| < 0.2, Small for 0.2 <= |d| < 0.5, Medium
\* for 0.5 <= |d| < 0.8 and Large otherwise (NaN and the infinities
\* included), so that d and -d get one label and 0.2, 0.5 and 0.8 fall in
\* the higher category.
C15_Interpretation ==
    call.fn = "interpret_effect_size" =>
        LET d == data.effect_size
        IN /\ result.exc = "none"
           /\ result.ret \in {"Negligible", "Small", "Medium", "Large"}
           /\ result.ret = IF d.kind = "num" THEN LabelOf(d.num, d.den) ELSE "Large"
           /\ result.ret = interpret_effect_size(Negated(d))

\* C15 witness: -0.5, on a boundary, is labelled Medium
C15_Witness ==
    /\ call.fn = "interpret_effect_size"
    /\ data.effect_size = Frac(-1, 2)
    /\ result.ret = "Medium"

\* a call of power_analysis that took the except branch, scipy.stats having
\* no ttest_power
FallbackPower == call.fn = "power_analysis" /\ ~env.ttest_power

AlphaInForce == IF data.alpha = NotGiven THEN 5 ELSE data.alpha[1]

\* C16 as stated: power_analysis(d, n, alpha) = power_analysis(-d, n, alpha)
\* for every effect size d, sample size n and alpha (checked where the
\* normal approximation answers).
C16_AsStated ==
    FallbackPower =>
        result.ret = power_analysis(Negated(data.effect_size),
                                    data.sample_size_per_group, data.alpha, env)

\* 0 <= v <= 1
InUnitInterval(v) ==
    \/ v.kind = "cdf"
    \/ v.kind = "num" /\ v.sign >= 0 /\ v.num <= v.den

\* C17: without the primary routine power_analysis raises nothing and
\* returns the clamped normal approximation cdf(d * sqrt(n / 2) - z), z the
\* 1 - alpha / 2 quantile of the alpha in force: for a finite d the value of
\* the cdf, for +infinity and n > 0 the value 1, for -infinity and n > 0 the
\* value 0, and 1 when d * sqrt(n / 2) is NaN; the value is always in [0, 1].
C17_PowerFallback ==
    FallbackPower =>
        LET d == data.effect_size
            n == data.sample_size_per_group
        IN /\ result.exc = "none"
           /\ InUnitInterval(result.ret)
           /\ d.kind = "num" =>
                 /\ result.ret.kind = "cdf"
                 /\ result.ret.alpha = AlphaInForce
                 /\ result.ret.sign = (IF n = 0 THEN 0 ELSE d.sign)
                 /\ result.ret.num * d.den * d.den * 2
                       = result.ret.den * d.num * d.num * n
           /\ (d.kind = "inf" /\ n > 0) =>
                 result.ret = (IF d.sign > 0 THEN Frac(1, 1) ELSE Frac(0, 1))
           /\ (d.kind = "nan" \/ (d.kind = "inf" /\ n = 0)) => result.ret = Frac(1, 1)

\* C17 witness: the effect size is NaN, the approximation is NaN and the
\* value returned is 1
C17_Witness ==
    /\ FallbackPower
    /\ data.effect_size = FNaN
    /\ data.sample_size_per_group > 0
    /\ result.ret = Frac(1, 1)

\* a <= b
FLeq(a, b) == a = b \/ FLess(a, b)

\* C18 as stated: for every effect size and alpha, the power at a sample
\* size is at most the power at every larger sample size (checked where the
\* normal approximation answers).
C18_AsStated ==
    FallbackPower =>
        \A n2 \in data.sample_size_per_group..MaxPerGroup :
            FLeq(result.ret,
                 power_analysis(data.effect_size, n2, data.alpha, env))

\* the number norm.cdf(-norm.ppf(1 - a / 2)) = a / 2, a in hundredths
CdfAtZero(v) == Frac(v.alpha, 200)

\* C19 as stated: at effect size 0 the power is approximately alpha for
\* every sample size, here to within a tenth of alpha (the verdict is the
\* same for every tolerance below half of alpha).
C19_AsStated ==
    (FallbackPower /\ data.effect_size = Frac(0, 1)) =>
        /\ result.ret.kind = "cdf"
        /\ LET v == CdfAtZero(result.ret)
           IN 10 * Abs(100 * v.num - AlphaInForce * v.den) <= AlphaInForce * v.den

---------------------------------------------------------------------------
(* Claims about main (SpecPipeline).                                       *)

Stages == {"load_and_process_data", "get_data_summary", "run_primary_analysis",
           "run_secondary_analyses", "run_export_pipeline"}

\* the stages that let an exception escape, and those that returned
RaisedStages == {log[k].fn : k \in {j \in 1..Len(log) :
                    log[j].fn \in Stages /\ log[j].arg # "returned"}}

ReturnedStages == {log[k].fn : k \in {j \in 1..Len(log) :
                      log[j].fn \in Stages /\ log[j].arg = "returned"}}

\* the stages the command line asks for
ExecutedStages ==
    (Stages \ (IF data.skip_secondary THEN {"run_secondary_analyses"} ELSE {}))
        \ (IF data.skip_export THEN {"run_export_pipeline"} ELSE {})

CompletionPrinted == \E k \in 1..Len(log) : log[k] = Printed("ANALYSIS COMPLETE!")

DiagnosticPrinted ==
    \E k \in 1..Len(log) :
        log[k] \in {Printed("Error: Data file not found."), Printed("Error during analysis")}

\* what holds in every state of a run of main
PipelineSafety ==
    /\ RaisedStages # {} =>
          /\ call.args[1] \in {"except", "exited"}
          /\ ~CompletionPrinted
          /\ Cardinality(RaisedStages) = 1
    /\ call = At("exited") =>
          /\ RaisedStages # {}
          /\ DiagnosticPrinted
          /\ result.exc = "SystemExit"
          /\ result.ret # Num(0)
    /\ CompletionPrinted =>
          /\ call = At("returned")
          /\ RaisedStages = {}
          /\ ReturnedStages = ExecutedStages
          /\ result.exc = "none"
          /\ DOMAIN result.ret =
                {"primary_results", "secondary_results", "exported_files", "data"}
    /\ (call = At("returned")) = CompletionPrinted
    /\ DiagnosticPrinted => call = At("exited")

\* C20: whenever a stage of main (loading, the data summary, the primary
\* analysis, the secondary analyses, the export) lets an exception escape,
\* no further stage runs, main prints a diagnostic and the process ends with
\* a non-zero exit status; main prints the completion and returns its
\* results only when every stage the command line asks for returned without
\* an exception; and a run that has passed the creation of the output
\* directory ends in one of the two ways.
C20_Pipeline ==
    /\ []PipelineSafety
    /\ (RaisedStages # {}) ~> (call = At("exited") /\ result.ret # Num(0))
    /\ (call = At("load")) ~> (call = At("exited") \/ call = At("returned"))

\* C20 witness: the export raised after the three stages before it had
\* returned, and the process ended with status 1
C20_Witness ==
    /\ call = At("exited")
    /\ RaisedStages = {"run_export_pipeline"}
    /\ Cardinality(ReturnedStages) = 4
    /\ result.ret = Num(1)

---------------------------------------------------------------------------
(* Claims about the dimensional comparison (SpecDimensions).               *)

DimensionalCalled == call.fn = "run_dimensional_baseline_adjusted_analysis"

\* both columns of an entry are in the table
BothColumns(label) ==
    InColumns(data, PreColumn(label)) /\ InColumns(data, PostColumn(label))

EntryLabels ==
    {get_self_efficacy_dimensions[n] : n \in DOMAIN get_self_efficacy_dimensions}
        \cup {"overall"}

\* the record of an entry without the fields the loop added
Unlabelled(r) ==
    [k \in DOMAIN r \ {"dimension_label", "dimension_number"} |-> r[k]]

\* the comparison of an entry gave an error or insufficient-data record
EntryFailed(label) ==
    label \in DOMAIN result.ret /\ "error" \in DOMAIN result.ret[label]

\* C30: run_dimensional_baseline_adjusted_analysis returns, without raising,
\* exactly one entry for each dimension whose pre and post columns are both
\* in the table, plus 'overall' when both overall columns are, and none for
\* an entry with a missing column; every entry, error and insufficient-data
\* records included, carries its dimension_label (and a dimension its
\* number) on top of the record of one comparison of its post column
\* adjusted for its pre column by 'group'; so a failed dimension keeps no
\* later entry from being stored.
C30_OneEntryPerDimension ==
    DimensionalCalled =>
        /\ result.exc = "none"
        /\ DOMAIN result.ret = {label \in EntryLabels : BothColumns(label)}
        /\ \A label \in DOMAIN result.ret :
              /\ result.ret[label].dimension_label = label
              /\ label # "overall" =>
                    get_self_efficacy_dimensions[result.ret[label].dimension_number]
                        = label
              /\ label = "overall" =>
                    "dimension_number" \notin DOMAIN result.ret[label]
              /\ IsFullResult(Unlabelled(result.ret[label]))
                    \/ DOMAIN Unlabelled(result.ret[label]) = {"error"}
              /\ Cardinality({k \in LogCalls("run_baseline_adjusted_analysis") :
                      log[k].arg = <<PostColumn(label), PreColumn(label), "group">>}) = 1
        /\ Cardinality(LogCalls("run_baseline_adjusted_analysis"))
              = Cardinality(DOMAIN result.ret)

\* the first dimension failed, the last has only its pre column and so no
\* entry, and overall self-efficacy was still compared in full
C30_Witness ==
    /\ DimensionalCalled
    /\ EntryFailed("relevant")
    /\ InColumns(data, PreColumn("empathetic"))
    /\ "empathetic" \notin DOMAIN result.ret
    /\ "overall" \in DOMAIN result.ret
    /\ IsFullResult(result.ret["overall"])

---------------------------------------------------------------------------
(* Claims about safe_json_parse (SpecParse).                               *)

ParseCalled == call.fn = "safe_json_parse"

\* the cell is a str holding exactly one JSON value
Parsable ==
    /\ data.type = "str"
    /\ ParseValue(data.tokens, 1).ok
    /\ ParseValue(data.tokens, 1).end = Len(data.tokens) + 1

\* what holds of the code: safe_json_parse does not raise, gives the empty
\* dict for a malformed text and for what is not a str, and the parsed
\* value, of whatever type the text denotes, for a parsable text
ParsedValueOrEmptyDict ==
    ParseCalled =>
        /\ result.exc = "none"
        /\ ~Parsable => result.ret = PyDict(<<>>)
        /\ Parsable => result.ret = ParseValue(data.tokens, 1).value

\* C25 as stated: safe_json_parse never raises and always returns a dict,
\* the parsed JSON for a parsable input and the empty dict for a malformed
\* text or a non-string input.
C25_AsStated ==
    ParseCalled =>
        /\ result.exc = "none"
        /\ result.ret.type = "dict"
        /\ ~Parsable => result.ret = PyDict(<<>>)
        /\ Parsable => result.ret = ParseValue(data.tokens, 1).value

---------------------------------------------------------------------------
(* Claims about the order of the stages and of their calls (SpecPipeline). *)

StageOrder ==
    <<"load_and_process_data", "get_data_summary", "run_primary_analysis",
      "run_secondary_analyses", "run_export_pipeline">>

StageRank(stage) == CHOOSE n \in DOMAIN StageOrder : StageOrder[n] = stage

\* the calls the claim orders inside a stage: descriptives, then the Test
\* Battery per outcome; the Subgroup Runner, then the Test Battery, then the
\* Power Calculator
OrderedCalls ==
    [run_primary_analysis |->
        <<<<"create_descriptive_table", <<"self_efficacy_change", "post_stress">>>>,
          <<"run_statistical_tests", "self_efficacy_change">>,
          <<"run_statistical_tests", "post_stress">>>>,
     run_secondary_analyses |->
        <<<<"analyze_subgroups", <<"age_group", "self_efficacy_change">>>>,
          <<"run_statistical_tests", "self_efficacy_change">>,
          <<"power_analysis", TARGET_PER_GROUP>>>>]

\* what identifies a logged call among the ordered ones
CallKey(entry) ==
    IF entry.fn = "power_analysis" THEN <<entry.fn, entry.arg[2]>>
    ELSE <<entry.fn, entry.arg>>

IsOrderedCall(entry) ==
    /\ "stage" \in DOMAIN entry
    /\ \E n \in DOMAIN OrderedCalls[entry.stage] :
          OrderedCalls[entry.stage][n][1] = entry.fn
    /\ \E n \in DOMAIN OrderedCalls[entry.stage] :
          OrderedCalls[entry.stage][n] = CallKey(entry)

\* the log entries the claim is about: the end of a stage and the ordered
\* calls
Traced == {k \in 1..Len(log) : log[k].fn \in Stages \/ IsOrderedCall(log[k])}

\* the stage an entry belongs to
StageAt(k) == IF log[k].fn \in Stages THEN log[k].fn ELSE log[k].stage

\* where an entry stands in the claimed order: the calls of a stage in
\* their order, then the end of the stage
Position(k) ==
    LET stage == StageAt(k)
    IN IF log[k].fn \in Stages THEN <<StageRank(stage), 9>>
       ELSE <<StageRank(stage),
              CHOOSE n \in DOMAIN OrderedCalls[stage] :
                  OrderedCalls[stage][n] = CallKey(log[k])>>

Earlier(p, q) == p[1] < q[1] \/ (p[1] = q[1] /\ p[2] < q[2])

\* every ordered call of a stage is in the log
AllCallsMade(stage) ==
    stage \in DOMAIN OrderedCalls =>
        \A n \in DOMAIN OrderedCalls[stage] :
            \E k \in Traced : StageAt(k) = stage /\ log[k].fn \notin Stages
                                /\ CallKey(log[k]) = OrderedCalls[stage][n]

\* the Power Calculator is given the magnitude of the effect size the Test
\* Battery returned just before it
PowerOnMagnitude ==
    \A k \in 1..Len(log) :
        log[k].fn = "power_analysis" =>
            /\ k > 1 /\ log[k - 1].fn = "run_statistical_tests"
            /\ log[k].arg[1].kind = log[k - 1].effect_size.kind
            /\ log[k].arg[1].num = log[k - 1].effect_size.num
            /\ log[k].arg[1].den = log[k - 1].effect_size.den
            /\ log[k].arg[1].sign >= 0
            /\ log[k].arg[2] = TARGET_PER_GROUP

\* C26: in every state of a run of main the stages and their calls are in
\* the log in the order loading, data summary, primary analysis
\* (descriptives, then the Test Battery for self_efficacy_change, then for
\* post_stress), secondary analyses (Subgroup Runner, then Test Battery,
\* then Power Calculator on the absolute value of the effect size the
\* battery returned), export, each once; an entry of a stage is in the log
\* only after every stage asked for before it has returned; a skipped stage
\* leaves no entry; and a completed run has made every call of every stage
\* asked for.
C26_StageOrder ==
    /\ \A j, k \in Traced : j < k => Earlier(Position(j), Position(k))
    /\ \A k \in Traced :
          /\ StageAt(k) \in ExecutedStages
          /\ \A before \in ExecutedStages :
                StageRank(before) < StageRank(StageAt(k)) =>
                    \E j \in 1..(k - 1) :
                        log[j].fn = before /\ log[j].arg = "returned"
          /\ log[k].fn \in Stages /\ log[k].arg = "returned" =>
                AllCallsMade(log[k].fn)
    /\ \A k \in 1..Len(log) :
          "stage" \in DOMAIN log[k] => log[k].stage \in ExecutedStages
    /\ PowerOnMagnitude
    /\ call = At("returned") => ReturnedStages = ExecutedStages

\* C26 witness: a run with --skip-export has completed; the battery of the
\* secondary analyses returned a negative effect size and the power was
\* asked for its magnitude
C26_Witness ==
    /\ call = At("returned")
    /\ data.skip_export /\ ~data.skip_secondary
    /\ \E k \in 1..Len(log) :
          /\ log[k].fn = "power_analysis"
          /\ log[k - 1].effect_size.sign < 0
          /\ log[k].arg[1].sign > 0
    /\ ReturnedStages = Stages \ {"run_export_pipeline"}

---------------------------------------------------------------------------
(* Claims about the table passed in and about repeated calls (SpecFrames). *)

\* the columns the operations derive
DerivedColumns == {"age_group", "baseline_adjusted_score"}

\* the frames a call made that hold a column
FramesWith(col) ==
    {ref \in 2..Len(data) : data[ref] # <<>> /\ HasColumns(data[ref], {col})}

\* C21: after any sequence of calls to calculate_descriptive_stats,
\* test_normality, test_homoscedasticity, run_statistical_tests,
\* analyze_subgroups, run_baseline_adjusted_analysis,
\* run_baseline_adjusted_fallback and add_demographic_groups, and while the
\* frames of the last call still exist, the table passed in has the rows,
\* columns and values it was built with; it holds no derived column; the
\* table add_demographic_groups returns is another frame, with age_group in
\* every row; and the residual score of a fitted fallback is on another
\* frame.
C21_InputUnchanged ==
    /\ data[1] = env.table
    /\ \A i \in 1..Len(data[1]) : DOMAIN data[1][i] \cap DerivedColumns = {}
    /\ call.fn = "add_demographic_groups" /\ result.exc = "none" =>
          /\ \E ref \in FramesWith("age_group") : data[ref] = result.ret
          /\ Len(result.ret) = Len(data[1])
    /\ /\ call.fn = "run_baseline_adjusted_fallback"
       /\ "error" \notin DOMAIN result.ret
       => FramesWith("baseline_adjusted_score") # {}

\* C21 witness: after an earlier call, the fallback has fitted a table
\* with an incomplete row and written the residuals to a frame of its own
C21_Witness ==
    /\ env.returned >= 1
    /\ call.fn = "run_baseline_adjusted_fallback"
    /\ Len(data[1]) > MIN_BASELINE_N
    /\ \E ref \in FramesWith("baseline_adjusted_score") :
          Len(data[ref]) = MIN_BASELINE_N
    /\ data[1] = env.table

\* the outcomes of the call under way when made first, on the table as the
\* caller built it
FirstCallOutcomes ==
    LET table == env.table
        fn == call.fn
    IN CASE fn = "calculate_descriptive_stats" ->
              {Returned(calculate_descriptive_stats(table, call.args[1], call.args[2]),
                        <<>>)}
         [] fn = "test_normality" ->
              {Returned(o.ret, o.log) :
                  o \in test_normality(table, call.args[1], call.args[2])}
         [] fn = "test_homoscedasticity" ->
              {Returned(o.ret, o.log) :
                  o \in test_homoscedasticity(table, call.args[1], call.args[2])}
         [] fn = "run_statistical_tests" ->
              run_statistical_tests(table, call.args[1], call.args[2])
         [] fn = "analyze_subgroups" -> SubgroupsOf(table, call.args[1])
         [] fn = "run_baseline_adjusted_analysis" ->
              run_baseline_adjusted_analysis(table, env, call.args[1], call.args[2],
                                             call.args[3])
         [] fn = "run_baseline_adjusted_fallback" ->
              run_baseline_adjusted_fallback(table, call.args[1], call.args[2],
                                             call.args[3])
         [] fn = "add_demographic_groups" ->
              {add_demographic_groups(<<table>>, 1)}
         [] fn = "power_analysis" ->
              {Returned(power_analysis(call.args[1], call.args[2], NotGiven, env), <<>>)}

\* the operations whose result the libraries have no part in
Deterministic ==
    {"calculate_descriptive_stats", "add_demographic_groups", "power_analysis"}

=============================================================================
